---- MODULE Spec2Model ----
(***************************************************************************)
(* Model of the AutoBiz-AI WebAssembly modules:                            *)
(*   - text-processing: TextProcessor (free-list arena, text chunker)      *)
(*   - ml-inference:    MLInference (allocate-only arena, typed codec)     *)
(*   - document-processor: DocumentProcessor (dispatcher facade)           *)
(* Each component has its own specification (SpecChunk, SpecArena,         *)
(* SpecCodec, SpecDoc) over the shared variables below.                    *)
(***************************************************************************)
EXTENDS Integers, Sequences, FiniteSets, TLC

(***************************************************************************)
(* Bounds of the model.                                                    *)
(***************************************************************************)
\* usize is modelled with UsizeBits bits (32 on wasm32); all usize arithmetic
\* is done modulo 2^UsizeBits exactly as the machine does it.
UsizeBits == 24
\* longest generated text, in grapheme clusters
MaxLen == 4
\* the chunker loop is unrolled for at most MaxChunks iterations
MaxChunks == 6
\* largest small chunk_size / overlap value that is enumerated
MaxCfg == 3
\* an arena is explored up to MaxMem bytes and MaxAllocs allocations
MaxMem == 24
MaxAllocs == 3
\* the codec is explored for MaxWrites encodes of tensors with dimensions up
\* to MaxDim and at most MaxElems elements
MaxWrites == 2
MaxDim == 2
MaxElems == 2
\* tensors of rank 0 to MaxRank are encoded
MaxRank == 5
\* longest serialised ProcessingResult that is enumerated, in bytes
MaxJson == 2

UsizeModulus == 2 ^ UsizeBits
UsizeMax == UsizeModulus - 1
\* Vec<u8> cannot hold more than isize::MAX bytes
IsizeMax == (UsizeModulus \div 2) - 1

Min(a, b) == IF a < b THEN a ELSE b

\* a + b overflows usize
AddOverflows(a, b) == a + b > UsizeMax
\* a + b as the release build computes it
WrappingAdd(a, b) == (a + b) % UsizeModulus
\* a - b overflows usize
SubOverflows(a, b) == b > a
\* a - b as the release build computes it
WrappingSub(a, b) == (a + UsizeModulus - b) % UsizeModulus

VARIABLES
    module,           \* the crate the instance under test belongs to; each is its own wasm module
    overflow_checks,  \* build profile: TRUE = debug (overflow panics), FALSE = release (wraps)
    text,             \* chunk_text_impl: the graphemes of the input text
    config,           \* chunk_text_impl: the ProcessingConfig
    pc,               \* chunk_text_impl: "loop", "done" (returned) or "panic"
    start,            \* chunk_text_impl: the cursor
    chunks,           \* chunk_text_impl: the chunks pushed so far
    tp_memory,        \* TextProcessor.memory: Vec<u8>
    tp_allocated,     \* TextProcessor.allocated: Vec<(ptr, size)>
    tp_issued,        \* offsets TextProcessor::allocate returned since the last cleanup
    ml_memory,        \* MLInference.memory: Vec<u8>
    ml_model,         \* MLInference.model: Option
    ml_metadata,      \* MLInference.metadata: Option
    ml_config,        \* MLInference.config
    ml_issued,        \* offsets MLInference::allocate returned since the last cleanup
    ret,              \* what the last call returned
    enc,              \* codec: the value last encoded into ml_memory, and its offset
    dec,              \* codec: what the last decode call returned
    doc_memory,       \* DocumentProcessor.memory: Vec<u8> (its length)
    doc_call,         \* process_document: the inputs of the last call
    doc_result,       \* process_document: the ProcessingResult the last call returned
    pre_image,        \* preprocess: the image the data bytes decode to
    pre_options       \* preprocess: the PreprocessingOptions

chunkVars == <<text, config, pc, start, chunks>>
tpVars == <<tp_memory, tp_allocated, tp_issued>>
mlVars == <<ml_memory, ml_model, ml_metadata, ml_config, ml_issued>>
buildVars == <<module, overflow_checks>>
codecVars == <<enc, dec>>
docVars == <<doc_memory, doc_call, doc_result>>
imageVars == <<pre_image, pre_options>>
vars == <<buildVars, chunkVars, tpVars, mlVars, ret, codecVars, docVars, imageVars>>

\* no value has been encoded or decoded yet
NoEnc == [kind |-> "none"]
NoDec == [op |-> "none"]

CodecIdle ==
    /\ enc = NoEnc
    /\ dec = NoDec

\* process_document has not been called yet
NoCall == [op |-> "none"]
NoResult == [returned |-> FALSE]

\* DocumentProcessor::new (document-processor lib.rs 46-51)
DocNew ==
    /\ doc_memory = 0
    /\ doc_call = NoCall
    /\ doc_result = NoResult

\* no preprocess call is under way
ImageIdle ==
    /\ pre_image = [variant |-> "none"]
    /\ pre_options = [resize |-> [some |-> FALSE], normalize |-> [some |-> FALSE],
                      color_space |-> "None", layout |-> "None"]

(***************************************************************************)
(* Arena allocators.                                                       *)
(***************************************************************************)
NoRet == [op |-> "none", panic |-> FALSE, value |-> 0]

\* Vec::with_capacity(1024 * 1024).  Within MaxMem the capacity never changes:
\* clear() and resize() below the capacity keep it.
InitialCapacity == 1048576

\* x & !7
ClearLow3(x) == (x \div 8) * 8

\* AlignedSize without the rounding: the size is used as it was requested
AlignedSizeNoRounding(size, checks) == [panic |-> FALSE, value |-> size]

\* `(size + 7) & !7`: [panic |-> TRUE] when the addition overflows in a build
\* with overflow checks, else the wrapped sum with the low 3 bits cleared
AlignedSize(size, checks) ==
    IF AddOverflows(size, 7) /\ checks
    THEN [panic |-> TRUE, value |-> 0]
    ELSE [panic |-> FALSE, value |-> ClearLow3(WrappingAdd(size, 7))]

Zeros(n) == [i \in 1..n |-> 0]

\* Vec::resize(new_len, 0): truncates, or appends zero bytes
Resize(mem, new_len) ==
    IF new_len <= Len(mem) THEN SubSeq(mem, 1, new_len)
    ELSE mem \o Zeros(new_len - Len(mem))

\* usize::next_power_of_two: overflow panics with overflow checks, else 0
NextPowerOfTwo(n) ==
    LET ps == {p \in {2 ^ k : k \in 0..UsizeBits} : p >= n}
    IN  CHOOSE p \in ps : \A q \in ps : p <= q

\* TextProcessor::allocate (text-processing lib.rs 53-59), up to the resize:
\* [panic, ptr, new_len, aligned]
TpAllocatePlan(mem, size, checks) ==
    LET a   == AlignedSize(size, checks)
        ptr == Len(mem)
    IN  IF a.panic \/ (AddOverflows(ptr, a.value) /\ checks)
        THEN [panic |-> TRUE, ptr |-> ptr, new_len |-> ptr, aligned |-> 0]
        ELSE LET n == WrappingAdd(ptr, a.value)
             IN  [panic |-> n > IsizeMax, ptr |-> ptr, new_len |-> n, aligned |-> a.value]

\* MLInference::allocate (ml-inference lib.rs 336-349), up to the resize: as
\* TextProcessor's, after the capacity check of lines 341-344
MlAllocatePlan(mem, size, checks) ==
    LET a   == AlignedSize(size, checks)
        ptr == Len(mem)
    IN  IF a.panic \/ (AddOverflows(ptr, a.value) /\ checks)
        THEN [panic |-> TRUE, ptr |-> ptr, new_len |-> ptr, aligned |-> 0]
        ELSE LET n == WrappingAdd(ptr, a.value)
                 grow == n > InitialCapacity
                 npot == NextPowerOfTwo(n)
                 \* reserve(new_capacity - capacity) panics with "capacity
                 \* overflow" when len + additional exceeds isize::MAX
                 additional == WrappingSub(npot % UsizeModulus, InitialCapacity)
                 reserve_panics ==
                     \/ npot > UsizeMax /\ checks
                     \/ ptr + additional > IsizeMax
             IN  [panic |-> (grow /\ reserve_panics) \/ n > IsizeMax,
                  ptr |-> ptr, new_len |-> n, aligned |-> a.value]

AllocSizes == {0, 1, 8, 9, UsizeMax - 15, UsizeMax - 6, UsizeMax}

\* TextProcessor::new (lib.rs 46-51)
TpNew ==
    /\ tp_memory = <<>>
    /\ tp_allocated = <<>>
    /\ tp_issued = <<>>

\* TextProcessor::allocate (lib.rs 53-59)
TpAllocate(size) ==
    LET plan == TpAllocatePlan(tp_memory, size, overflow_checks)
    IN  /\ module = "text-processing"
        /\ Len(tp_issued) < MaxAllocs
        /\ plan.panic \/ plan.new_len <= MaxMem
        /\ IF plan.panic
           THEN /\ ret' = [op |-> "allocate", panic |-> TRUE, value |-> 0]
                /\ UNCHANGED tpVars
           ELSE /\ tp_memory' = Resize(tp_memory, plan.new_len)
                /\ tp_allocated' = Append(tp_allocated, <<plan.ptr, plan.aligned>>)
                /\ tp_issued' = Append(tp_issued, [offset |-> plan.ptr, size |-> size])
                /\ ret' = [op |-> "allocate", panic |-> FALSE, value |-> plan.ptr]
        /\ UNCHANGED <<buildVars, imageVars, docVars, codecVars, chunkVars, mlVars>>

\* Vec::remove(index)
RemoveAt(s, i) == SubSeq(s, 1, i - 1) \o SubSeq(s, i + 1, Len(s))

\* the index of the last matching record instead of the first
TpPositionLast(allocated, ptr, size) ==
    LET hits == {i \in 1..Len(allocated) :
                    allocated[i][1] = ptr /\ allocated[i][2] >= size}
    IN  IF hits = {} THEN 0 ELSE CHOOSE i \in hits : \A j \in hits : i >= j

\* iter().position(|&(p, s)| p == ptr && s >= size): 0 stands for None
TpPosition(allocated, ptr, size) ==
    LET hits == {i \in 1..Len(allocated) :
                    allocated[i][1] = ptr /\ allocated[i][2] >= size}
    IN  IF hits = {} THEN 0 ELSE CHOOSE i \in hits : \A j \in hits : i <= j

\* TextProcessor::deallocate (lib.rs 61-65)
TpDeallocate(ptr, size) ==
    LET index == TpPosition(tp_allocated, ptr, size)
    IN  /\ module = "text-processing"
        /\ tp_allocated' = IF index # 0 THEN RemoveAt(tp_allocated, index) ELSE tp_allocated
        /\ ret' = [op |-> "deallocate", panic |-> FALSE, value |-> 0,
                   ptr |-> ptr, size |-> size]
        /\ UNCHANGED <<buildVars, imageVars, docVars, codecVars, chunkVars, mlVars, tp_memory, tp_issued>>

\* TextProcessor::cleanup (lib.rs 224-228)
TpCleanup ==
    /\ module = "text-processing"
    /\ tp_memory' = <<>>
    /\ tp_allocated' = <<>>
    /\ tp_issued' = <<>>
    /\ ret' = [op |-> "cleanup", panic |-> FALSE, value |-> 0]
    \* an offset the caller kept addresses nothing any more
    /\ enc' = NoEnc
    /\ UNCHANGED <<buildVars, imageVars, docVars, dec, chunkVars, mlVars>>

\* MLInference::new (ml-inference lib.rs 64-79)
DefaultModelConfig ==
    [batch_size |-> 1, num_threads |-> 1, use_gpu |-> FALSE, precision |-> "fp32",
     optimization_level |-> 2, cache_results |-> TRUE, timeout |-> 30000]

MlNew ==
    /\ ml_memory = <<>>
    /\ ml_model = "None"
    /\ ml_metadata = "None"
    /\ ml_config = DefaultModelConfig
    /\ ml_issued = <<>>

\* MLInference::allocate (lib.rs 336-349)
MlAllocate(size) ==
    LET plan == MlAllocatePlan(ml_memory, size, overflow_checks)
    IN  /\ module = "ml-inference"
        /\ Len(ml_issued) < MaxAllocs
        /\ plan.panic \/ plan.new_len <= MaxMem
        /\ IF plan.panic
           THEN /\ ret' = [op |-> "allocate", panic |-> TRUE, value |-> 0]
                /\ UNCHANGED mlVars
           ELSE /\ ml_memory' = Resize(ml_memory, plan.new_len)
                /\ ml_issued' = Append(ml_issued, [offset |-> plan.ptr, size |-> size])
                /\ ret' = [op |-> "allocate", panic |-> FALSE, value |-> plan.ptr]
                /\ UNCHANGED <<ml_model, ml_metadata, ml_config>>
        /\ UNCHANGED <<buildVars, imageVars, docVars, codecVars, chunkVars, tpVars>>

\* memory[a..b].fill(0)
FillZero(mem, a, b) == [i \in 1..Len(mem) |-> IF a < i /\ i <= b THEN 0 ELSE mem[i]]

\* MLInference::deallocate (lib.rs 351-359)
MlDeallocatePlan(mem, ptr, size, checks) ==
    LET a == AlignedSize(size, checks)
    IN  IF a.panic \/ (AddOverflows(ptr, a.value) /\ checks)
        THEN [panic |-> TRUE, mem |-> mem]
        ELSE LET e == WrappingAdd(ptr, a.value)
             IN  IF e <= Len(mem)
                 THEN \* memory[ptr..e] panics when ptr > e
                      IF ptr > e THEN [panic |-> TRUE, mem |-> mem]
                      ELSE [panic |-> FALSE, mem |-> FillZero(mem, ptr, e)]
                 ELSE [panic |-> FALSE, mem |-> mem]

MlDeallocate(ptr, size) ==
    LET plan == MlDeallocatePlan(ml_memory, ptr, size, overflow_checks)
    IN  /\ module = "ml-inference"
        /\ ml_memory' = plan.mem
        /\ ret' = [op |-> "deallocate", panic |-> plan.panic, value |-> 0,
                   ptr |-> ptr, size |-> size]
        /\ UNCHANGED <<buildVars, imageVars, docVars, codecVars, chunkVars, tpVars, ml_model, ml_metadata,
                       ml_config, ml_issued>>

\* the caller fills a region it was issued with non-zero bytes, as
\* test_memory_management does (tests.rs 136-137)
MlFill(k) ==
    /\ module = "ml-inference"
    /\ k \in 1..Len(ml_issued)
    /\ LET r == ml_issued[k]
       IN  /\ r.size > 0
           /\ r.offset + r.size <= Len(ml_memory)
           /\ ml_memory' = [i \in 1..Len(ml_memory) |->
                               IF r.offset < i /\ i <= r.offset + r.size
                               THEN 1 ELSE ml_memory[i]]
    /\ ret' = [op |-> "fill", panic |-> FALSE, value |-> 0]
    /\ UNCHANGED <<buildVars, imageVars, docVars, codecVars, chunkVars, tpVars, ml_model, ml_metadata,
                   ml_config, ml_issued>>

\* cleanup that clears the buffer but keeps the model and its metadata
MlCleanupKeepsModel ==
    /\ module = "ml-inference"
    /\ ml_memory' = <<>>
    /\ ml_issued' = <<>>
    /\ ret' = [op |-> "cleanup", panic |-> FALSE, value |-> 0]
    /\ UNCHANGED <<buildVars, imageVars, docVars, codecVars, chunkVars, tpVars, ml_config, ml_model,
                   ml_metadata>>

\* MLInference::cleanup (lib.rs 361-366)
MlCleanup ==
    /\ module = "ml-inference"
    /\ ml_memory' = <<>>
    /\ ml_model' = "None"
    /\ ml_metadata' = "None"
    /\ ml_issued' = <<>>
    /\ ret' = [op |-> "cleanup", panic |-> FALSE, value |-> 0]
    /\ UNCHANGED <<buildVars, imageVars, docVars, codecVars, chunkVars, tpVars, ml_config>>

ChunkIdle ==
    /\ text = <<>>
    /\ config = [chunk_size |-> 0, overlap |-> 0, preserve_whitespace |-> FALSE,
                 preserve_newlines |-> FALSE, trim_chunks |-> FALSE]
    /\ pc = "done"
    /\ start = 0
    /\ chunks = <<>>

InitArena ==
    /\ module \in {"text-processing", "ml-inference"}
    /\ overflow_checks \in BOOLEAN
    /\ ChunkIdle
    /\ TpNew
    /\ MlNew
    /\ ret = NoRet
    /\ CodecIdle
    /\ DocNew
    /\ ImageIdle

DeallocPtrs == {0, 8, 16}

\* sizes passed to deallocate: below, at and above a recorded size, and
\* sizes whose rounding or end offset overflows
TpDeallocSizes == {0, 8, 9, UsizeMax}
MlDeallocSizes == {1, 9, UsizeMax - 15, UsizeMax}

NextArena ==
    \/ \E size \in AllocSizes : TpAllocate(size)
    \/ \E ptr \in DeallocPtrs \ {16}, size \in TpDeallocSizes : TpDeallocate(ptr, size)
    \/ TpCleanup
    \/ \E size \in AllocSizes : MlAllocate(size)
    \/ \E ptr \in DeallocPtrs, size \in MlDeallocSizes : MlDeallocate(ptr, size)
    \/ \E k \in 1..MaxAllocs : MlFill(k)
    \/ MlCleanup

SpecArena == InitArena /\ [][NextArena]_vars

(***************************************************************************)
(* Typed codec of MLInference (ml-inference/rust/src/lib.rs).              *)
(* Memory is a sequence of bytes; i32 and f32 values are 4 bytes, little   *)
(* endian.  An f32 is represented by its IEEE-754 bit pattern.             *)
(***************************************************************************)
\* the 4 little-endian bytes of a 32-bit value
Le32(v) == <<v % 256, (v \div 256) % 256, (v \div 65536) % 256, (v \div 16777216) % 256>>

\* *(memory[p..].as_ptr() as *const i32)
I32At(mem, p) ==
    LET b3 == mem[p + 4]
    IN  mem[p + 1] + 256 * mem[p + 2] + 65536 * mem[p + 3]
          + 16777216 * (IF b3 < 128 THEN b3 ELSE b3 - 256)

\* `x as usize` of an i32
I32AsUsize(v) == v % UsizeModulus
\* `x as u8` of an i32
I32AsU8(v) == v % 256
\* `x as u32` of an i32
I32AsU32(v) == IF v >= 0 THEN v ELSE (v + 2147483647) + 2147483647 + 2

\* copy `bytes` into mem at offset off
WriteBytes(mem, off, bytes) ==
    [i \in 1..Len(mem) |->
        IF off < i /\ i <= off + Len(bytes) THEN bytes[i - off] ELSE mem[i]]

RECURSIVE Concat(_)
\* concatenation of a sequence of sequences
Concat(ss) == IF ss = <<>> THEN <<>> ELSE Head(ss) \o Concat(Tail(ss))

RECURSIVE Product(_)
\* shape.iter().product()
Product(s) == IF s = <<>> THEN 1 ELSE Head(s) * Product(Tail(s))

\* bit patterns of 1.0f32 and 2.0f32
F32One == 1065353216
F32Two == 1073741824

\* the bytes write_tensor lays out (lib.rs 386-407): rank, dims, payload
TensorBytes(t) ==
    Le32(Len(t.shape))
      \o Concat([i \in 1..Len(t.shape) |-> Le32(t.shape[i])])
      \o Concat([i \in 1..Len(t.data) |-> Le32(t.data[i])])

\* MLInference::write_tensor (lib.rs 374-410)
MlWriteTensor(t) ==
    LET total_size == 4 * (1 + Len(t.shape)) + 4 * Len(t.data)
        plan == MlAllocatePlan(ml_memory, total_size, overflow_checks)
    IN  /\ module = "ml-inference"
        /\ Len(ml_issued) < MaxWrites
        /\ ~plan.panic
        /\ ml_memory' = WriteBytes(Resize(ml_memory, plan.new_len), plan.ptr, TensorBytes(t))
        /\ ml_issued' = Append(ml_issued, [offset |-> plan.ptr, size |-> total_size])
        /\ ret' = [op |-> "write_tensor", panic |-> FALSE, value |-> plan.ptr]
        /\ enc' = [kind |-> "tensor", value |-> t, offset |-> plan.ptr]
        /\ UNCHANGED <<buildVars, imageVars, docVars, chunkVars, tpVars, ml_model, ml_metadata, ml_config, dec>>

\* a decoder that builds an array for every rank up to 8
RanksUnchecked == 0..8

\* the ranks read_tensor decodes (lib.rs 240-262)
Ranks == 1..4

\* the words read_tensor touches lie inside the buffer
WordsInBounds(mem, p, n) == p + 4 * n <= Len(mem)

\* MLInference::read_tensor (lib.rs 216-265).  Result kinds:
\*   "ok" (an array), "err" (Err returned), "panic" (slice index out of
\*   range), "ub" (a raw read past the end of the buffer: undefined behaviour)
ReadTensor(mem, ptr, shape_ptr) ==
    IF shape_ptr > Len(mem) THEN [kind |-> "panic"]
    ELSE IF ~WordsInBounds(mem, shape_ptr, 1) THEN [kind |-> "ub"]
    ELSE LET shape_len == I32AsUsize(I32At(mem, shape_ptr))
         IN  IF shape_ptr + 4 > Len(mem) THEN [kind |-> "panic"]
             ELSE IF ~WordsInBounds(mem, shape_ptr + 4, shape_len) THEN [kind |-> "ub"]
             ELSE LET shape == [i \in 1..shape_len |->
                                  I32AsUsize(I32At(mem, shape_ptr + 4 * i))]
                      data_len == Product(shape)
                  IN  IF ptr > Len(mem) THEN [kind |-> "panic"]
                      ELSE IF ~WordsInBounds(mem, ptr, data_len) THEN [kind |-> "ub"]
                      ELSE IF shape_len \in Ranks
                           THEN [kind |-> "ok", shape |-> shape,
                                 data |-> [i \in 1..data_len |-> I32At(mem, ptr + 4 * (i - 1))]]
                           ELSE [kind |-> "err", msg |-> "Unsupported tensor dimension"]

\* undefined behaviour either faults or yields a value the code does not determine
Outcomes(r) == IF r.kind = "ub" THEN {[kind |-> "fault"], [kind |-> "unspecified"]} ELSE {r}

\* the offsets a caller passes that relate to the last encoded value: 0, the
\* returned offset, and the offset of the payload behind the header
ReadPtrs ==
    {0} \cup (IF enc.kind = "none" THEN {} ELSE {enc.offset})
        \cup (IF enc.kind = "tensor"
              THEN {enc.offset + 4 * (1 + Len(enc.value.shape))} ELSE {})

MlReadTensor(ptr, shape_ptr) ==
    /\ module = "ml-inference"
    /\ \E r \in Outcomes(ReadTensor(ml_memory, ptr, shape_ptr)) :
          dec' = [op |-> "read_tensor", ptr |-> ptr, shape_ptr |-> shape_ptr, result |-> r]
    /\ ret' = [op |-> "read_tensor", panic |-> FALSE, value |-> 0]
    /\ UNCHANGED <<buildVars, imageVars, docVars, chunkVars, tpVars, mlVars, enc>>

RECURSIVE Decimal(_)
\* the ASCII decimal digits of a natural number
Decimal(n) == IF n < 10 THEN <<48 + n>> ELSE Decimal(n \div 10) \o <<48 + (n % 10)>>

\* ASCII of "true" / "false"
JsonBool(b) == IF b THEN <<116, 114, 117, 101>> ELSE <<102, 97, 108, 115, 101>>

\* ASCII of the precision names
PrecisionBytes(p) ==
    CASE p = "fp32" -> <<102, 112, 51, 50>>
      [] p = "fp16" -> <<102, 112, 49, 54>>
      [] p = "int8" -> <<105, 110, 116, 56>>

\* serde_json::to_string(&ModelConfig) (lib.rs 414; the fields of lib.rs 27-35):
\* {"batch_size":N,"num_threads":N,"use_gpu":B,"precision":"S",
\*  "optimization_level":N,"cache_results":B,"timeout":N}
ConfigJson(c) ==
    Concat(<<
        <<123, 34, 98, 97, 116, 99, 104, 95, 115, 105, 122, 101, 34, 58>>, Decimal(c.batch_size),
        <<44, 34, 110, 117, 109, 95, 116, 104, 114, 101, 97, 100, 115, 34, 58>>, Decimal(c.num_threads),
        <<44, 34, 117, 115, 101, 95, 103, 112, 117, 34, 58>>, JsonBool(c.use_gpu),
        <<44, 34, 112, 114, 101, 99, 105, 115, 105, 111, 110, 34, 58, 34>>, PrecisionBytes(c.precision),
        <<34, 44, 34, 111, 112, 116, 105, 109, 105, 122, 97, 116, 105, 111, 110, 95, 108, 101, 118, 101, 108, 34, 58>>, Decimal(c.optimization_level),
        <<44, 34, 99, 97, 99, 104, 101, 95, 114, 101, 115, 117, 108, 116, 115, 34, 58>>, JsonBool(c.cache_results),
        <<44, 34, 116, 105, 109, 101, 111, 117, 116, 34, 58>>, Decimal(c.timeout),
        <<125>> >>)

\* MLInference::write_string (lib.rs 420-425): the bytes and a NUL terminator
MlWriteStringPlan(mem, bytes, checks) ==
    LET plan == MlAllocatePlan(mem, Len(bytes) + 1, checks)
    IN  [panic |-> plan.panic, ptr |-> plan.ptr,
         mem |-> IF plan.panic THEN mem
                 ELSE WriteBytes(Resize(mem, plan.new_len), plan.ptr, bytes \o <<0>>)]

\* a caller writes a string (tests.rs 80: the options JSON)
MlWriteString(bytes) ==
    LET w == MlWriteStringPlan(ml_memory, bytes, overflow_checks)
    IN  /\ module = "ml-inference"
        /\ Len(ml_issued) < MaxWrites
        /\ ~w.panic
        /\ ml_memory' = w.mem
        /\ ml_issued' = Append(ml_issued, [offset |-> w.ptr, size |-> Len(bytes) + 1])
        /\ ret' = [op |-> "write_string", panic |-> FALSE, value |-> w.ptr]
        /\ enc' = [kind |-> "string", value |-> bytes, offset |-> w.ptr]
        /\ UNCHANGED <<buildVars, imageVars, docVars, chunkVars, tpVars, ml_model, ml_metadata, ml_config, dec>>

\* MLInference::write_config (lib.rs 412-417)
MlWriteConfig(c) ==
    LET w == MlWriteStringPlan(ml_memory, ConfigJson(c), overflow_checks)
    IN  /\ module = "ml-inference"
        /\ Len(ml_issued) < MaxWrites
        /\ ~w.panic
        /\ ml_memory' = w.mem
        /\ ml_issued' = Append(ml_issued, [offset |-> w.ptr, size |-> Len(ConfigJson(c)) + 1])
        /\ ret' = [op |-> "write_config", panic |-> FALSE, value |-> w.ptr]
        /\ enc' = [kind |-> "config", value |-> c, offset |-> w.ptr]
        /\ UNCHANGED <<buildVars, imageVars, docVars, chunkVars, tpVars, ml_model, ml_metadata, ml_config, dec>>

\* the precision match of lib.rs 204-209
PrecisionName(v) ==
    CASE v = 0 -> "fp32"
      [] v = 1 -> "fp16"
      [] v = 2 -> "int8"
      [] OTHER -> "fp32"

\* MLInference::read_config (lib.rs 192-214)
ReadConfig(mem, ptr) ==
    IF ptr > Len(mem) THEN [kind |-> "panic"]
    ELSE IF ~WordsInBounds(mem, ptr, 7) THEN [kind |-> "ub"]
    ELSE LET view == [i \in 0..6 |-> I32At(mem, ptr + 4 * i)]
         IN  [kind |-> "ok",
              value |-> [batch_size         |-> I32AsUsize(view[0]),
                         num_threads        |-> I32AsUsize(view[1]),
                         use_gpu            |-> view[2] # 0,
                         precision          |-> PrecisionName(view[3]),
                         optimization_level |-> I32AsU8(view[4]),
                         cache_results      |-> view[5] # 0,
                         timeout            |-> I32AsU32(view[6])]]

MlReadConfig(ptr) ==
    /\ module = "ml-inference"
    /\ \E r \in Outcomes(ReadConfig(ml_memory, ptr)) :
          dec' = [op |-> "read_config", ptr |-> ptr, shape_ptr |-> 0, result |-> r]
    /\ ret' = [op |-> "read_config", panic |-> FALSE, value |-> 0]
    /\ UNCHANGED <<buildVars, imageVars, docVars, chunkVars, tpVars, mlVars, enc>>

RECURSIVE ShapesOfRank(_)
ShapesOfRank(r) ==
    IF r = 0 THEN {<<>>}
    ELSE {Append(s, d) : s \in ShapesOfRank(r - 1), d \in 1..MaxDim}

Shapes == {s \in UNION {ShapesOfRank(r) : r \in Ranks} : Product(s) <= MaxElems}

\* two payloads per length: all 1.0, and 1.0 followed by 2.0s
Payloads(n) == {[i \in 1..n |-> F32One], [i \in 1..n |-> IF i = 1 THEN F32One ELSE F32Two]}

Tensors == UNION {{[shape |-> s, data |-> d] : d \in Payloads(Product(s))} : s \in Shapes}

\* tests.rs 44-52 and variations of it
ModelConfigs ==
    [batch_size : {1, 2}, num_threads : {2}, use_gpu : BOOLEAN,
     precision : {"fp32", "fp16", "int8"}, optimization_level : {2},
     cache_results : {TRUE}, timeout : {30000}]

\* "{}" and "[1]"
StringInputs == {<<123, 125>>, <<91, 49, 93>>}

InitCodec ==
    /\ module = "ml-inference"
    /\ overflow_checks \in BOOLEAN
    /\ ChunkIdle
    /\ TpNew
    /\ MlNew
    /\ ret = NoRet
    /\ CodecIdle
    /\ DocNew
    /\ ImageIdle

NextCodec ==
    \/ \E t \in Tensors : MlWriteTensor(t)
    \/ \E ptr \in ReadPtrs, shape_ptr \in ReadPtrs : MlReadTensor(ptr, shape_ptr)
    \/ \E c \in ModelConfigs : MlWriteConfig(c)
    \/ \E ptr \in ReadPtrs : MlReadConfig(ptr)
    \/ \E s \in StringInputs : MlWriteString(s)

SpecCodec == InitCodec /\ [][NextCodec]_vars

\* tensors of every rank from 0 to MaxRank, one with a single element and one
\* with two elements along the last axis
RankTensors ==
    {[shape |-> [i \in 1..r |-> 1], data |-> <<F32One>>] : r \in 0..MaxRank}
      \cup {[shape |-> [i \in 1..r |-> IF i = r THEN 2 ELSE 1],
              data |-> <<F32One, F32Two>>] : r \in 1..MaxRank}

\* write_tensor accepts a tensor of any rank; read_tensor decodes it
NextDecode ==
    \/ \E t \in RankTensors : MlWriteTensor(t)
    \/ \E ptr \in ReadPtrs, shape_ptr \in ReadPtrs : MlReadTensor(ptr, shape_ptr)

SpecDecode == InitCodec /\ [][NextDecode]_vars

(***************************************************************************)
(* Model lifecycle of MLInference: load_model, run_inference.  Parsing and *)
(* running a model is done by the external tract crates; whether a parse,  *)
(* the fact lookup or a run succeeds is an input here.                     *)
(***************************************************************************)
\* <[u8]>::starts_with
StartsWith(data, prefix) ==
    /\ Len(data) >= Len(prefix)
    /\ SubSeq(data, 1, Len(prefix)) = prefix

OnnxMagic == <<79, 78, 78, 88>>
TfMagic == <<84, 70>>

\* serde_json::to_string(&ModelMetadata) (lib.rs 272) of a model without a
\* name and without inputs or outputs:
\* {"name":"unknown","version":"1.0","framework":"unknown","input_shapes":[],"output_shapes":[]}
MetadataJson ==
    <<123, 34, 110, 97, 109, 101, 34, 58, 34, 117, 110, 107, 110, 111, 119, 110, 34, 44, 34, 118,
       101, 114, 115, 105, 111, 110, 34, 58, 34, 49, 46, 48, 34, 44, 34, 102, 114, 97, 109, 101,
       119, 111, 114, 107, 34, 58, 34, 117, 110, 107, 110, 111, 119, 110, 34, 44, 34, 105, 110, 112,
       117, 116, 95, 115, 104, 97, 112, 101, 115, 34, 58, 91, 93, 44, 34, 111, 117, 116, 112, 117,
       116, 95, 115, 104, 97, 112, 101, 115, 34, 58, 91, 93, 125>>

\* MLInference::load_model (lib.rs 81-100) on the state `old` =
\* [config, model, metadata, mem], given the result rc of read_config: the
\* outcome kind ("ok", "err", "panic", "fault") and the fields as the call
\* leaves them
LoadModelPlan(mem, old, data, rc, parse, checks) ==
    LET known == StartsWith(data, OnnxMagic) \/ StartsWith(data, TfMagic)
        w == MlWriteStringPlan(mem, MetadataJson, checks)
    IN  IF rc.kind # "ok" THEN [old EXCEPT !.kind = rc.kind]
        ELSE IF ~known
             THEN [old EXCEPT !.kind = "err", !.msg = "Unsupported model format",
                              !.config = rc.value]
        ELSE IF parse = "load_err"
             THEN [old EXCEPT !.kind = "err", !.msg = "Model loading failed",
                              !.config = rc.value]
        ELSE IF parse = "facts_err"
             THEN [old EXCEPT !.kind = "err", !.msg = "facts", !.config = rc.value,
                              !.model = "Some"]
        ELSE IF w.panic
             THEN [old EXCEPT !.kind = "panic", !.config = rc.value, !.model = "Some",
                              !.metadata = "Some"]
        ELSE [kind |-> "ok", msg |-> "", config |-> rc.value, model |-> "Some",
              metadata |-> "Some", mem |-> w.mem, ptr |-> w.ptr]

\* configs standing for the ones a read past the end of the buffer may yield
UnspecifiedConfigs == {c \in ModelConfigs : c.use_gpu /\ c.precision = "int8"}

\* what read_config(ptr) can hand to its caller: its result, or, when it
\* reads past the end of the buffer (undefined behaviour), a fault or a
\* config made of whatever bytes lie there
ConfigReads(mem, ptr) ==
    LET rc == ReadConfig(mem, ptr)
    IN  IF rc.kind = "ub"
        THEN {[kind |-> "fault"]} \cup {[kind |-> "ok", value |-> c] : c \in UnspecifiedConfigs}
        ELSE {rc}

\* the state load_model starts from
MlState ==
    [kind |-> "ok", msg |-> "", config |-> ml_config, model |-> ml_model,
     metadata |-> ml_metadata, mem |-> ml_memory, ptr |-> 0]

\* MLInference::load_model (lib.rs 81-100)
MlLoadModel(data, config_ptr, parse) ==
    /\ module = "ml-inference"
    /\ Len(ml_issued) < MaxAllocs
    /\ \E rc \in ConfigReads(ml_memory, config_ptr) :
          LET r == LoadModelPlan(ml_memory, MlState, data, rc, parse, overflow_checks)
          IN  /\ ml_config' = r.config
              /\ ml_model' = r.model
              /\ ml_metadata' = r.metadata
              /\ ml_memory' = r.mem
              /\ ml_issued' =
                    IF r.kind = "ok"
                    THEN Append(ml_issued, [offset |-> r.ptr, size |-> Len(MetadataJson) + 1])
                    ELSE ml_issued
              /\ ret' = [op |-> "load_model", panic |-> r.kind \in {"panic", "fault"},
                         value |-> r.ptr, err |-> r.kind = "err", msg |-> r.msg,
                         data |-> data, parse |-> parse, config_read |-> rc.kind]
    /\ UNCHANGED <<buildVars, imageVars, docVars, codecVars, chunkVars, tpVars>>

\* model bytes: the two known headers, the zero bytes of test_error_handling
\* (shortened)
ModelInputs == {OnnxMagic, TfMagic, <<0, 0, 0, 0>>}

ParseOutcomes == {"ok", "load_err", "facts_err"}

\* the config offset handed to load_model: the one write_config returned
\* (tests.rs 54-55), or 0 when no config was written
ConfigPtrs == IF enc.kind = "config" THEN {enc.offset} ELSE {0}

\* allocation sizes: small ones, and one that wraps the rounded end offset
LifeSizes == {1, 8, UsizeMax - 15}

\* both processors over their whole lifecycle: the arena operations and,
\* for MLInference, the calls that set and drop the model
NextLife ==
    \/ \E size \in LifeSizes : TpAllocate(size)
    \/ \E ptr \in DeallocPtrs, size \in LifeSizes : TpDeallocate(ptr, size)
    \/ TpCleanup
    \/ \E size \in LifeSizes : MlAllocate(size)
    \/ \E c \in ModelConfigs :
          ~c.use_gpu /\ c.batch_size = 1 /\ c.precision = "fp32" /\ MlWriteConfig(c)
    \/ \E data \in ModelInputs, config_ptr \in ConfigPtrs, parse \in ParseOutcomes :
          MlLoadModel(data, config_ptr, parse)
    \/ MlCleanup

SpecLife == InitArena /\ [][NextLife]_vars

\* the outputs the plan computes: one tensor of shape [1] holding 1.0
InferenceOutputs == <<[shape |-> <<1>>, data |-> <<F32One>>]>>

\* write_inference_results (lib.rs 283-334): the number of outputs, then each
\* tensor as write_tensor lays it out
InferenceResultBytes(outputs) ==
    Le32(Len(outputs)) \o Concat([i \in 1..Len(outputs) |-> TensorBytes(outputs[i])])

\* MLInference::run_inference (lib.rs 102-117).  `run` is the outcome of
\* building and running the plan in the external tract crate
MlRunInference(input_ptr, shape_ptr, run) ==
    /\ module = "ml-inference"
    /\ Len(ml_issued) < MaxAllocs
    /\ IF ml_model = "None"
       THEN /\ ret' = [op |-> "run_inference", panic |-> FALSE, value |-> 0,
                       err |-> TRUE, msg |-> "Model not loaded"]
            /\ UNCHANGED <<mlVars, dec>>
       ELSE \E r \in Outcomes(ReadTensor(ml_memory, input_ptr, shape_ptr)) :
              /\ dec' = [op |-> "read_tensor", ptr |-> input_ptr, shape_ptr |-> shape_ptr,
                         result |-> r]
              /\ IF r.kind \in {"panic", "fault"}
                 THEN /\ ret' = [op |-> "run_inference", panic |-> TRUE, value |-> 0,
                                 err |-> FALSE, msg |-> ""]
                      /\ UNCHANGED mlVars
                 ELSE IF r.kind = "err" \/ run = "err"
                 THEN /\ ret' = [op |-> "run_inference", panic |-> FALSE, value |-> 0,
                                 err |-> TRUE,
                                 msg |-> IF r.kind = "err" THEN r.msg ELSE "plan"]
                      /\ UNCHANGED mlVars
                 ELSE LET bytes == InferenceResultBytes(InferenceOutputs)
                          plan == MlAllocatePlan(ml_memory, Len(bytes), overflow_checks)
                      IN  /\ ~plan.panic
                          /\ ml_memory' = WriteBytes(Resize(ml_memory, plan.new_len),
                                                     plan.ptr, bytes)
                          /\ ml_issued' = Append(ml_issued,
                                                 [offset |-> plan.ptr, size |-> Len(bytes)])
                          /\ ret' = [op |-> "run_inference", panic |-> FALSE,
                                     value |-> plan.ptr, err |-> FALSE, msg |-> ""]
                          /\ UNCHANGED <<ml_model, ml_metadata, ml_config>>
    /\ UNCHANGED <<buildVars, imageVars, docVars, chunkVars, tpVars, enc>>

\* the input tensor a caller writes before run_inference
InferenceInput == [shape |-> <<1>>, data |-> <<F32One>>]

InitInfer ==
    /\ module = "ml-inference"
    /\ overflow_checks \in BOOLEAN
    /\ ChunkIdle
    /\ TpNew
    /\ MlNew
    /\ ret = NoRet
    /\ CodecIdle
    /\ DocNew
    /\ ImageIdle

\* the (input_ptr, shape_ptr) pairs a caller passes: those of the tensor it
\* wrote, and (0, 0)
InferPtrs ==
    {<<0, 0>>} \cup (IF enc.kind = "tensor"
                     THEN {<<enc.offset + 4 * (1 + Len(enc.value.shape)), enc.offset>>}
                     ELSE {})

NextInfer ==
    \/ MlWriteTensor(InferenceInput)
    \/ \E data \in {OnnxMagic, <<0, 0, 0, 0>>}, parse \in ParseOutcomes :
          MlLoadModel(data, 0, parse)
    \/ \E ptrs \in InferPtrs, run \in {"ok", "err"} : MlRunInference(ptrs[1], ptrs[2], run)
    \/ MlCleanup

SpecInfer == InitInfer /\ [][NextInfer]_vars

(***************************************************************************)
(* Image pipeline (ml-inference/rust/src/preprocessing.rs) and preprocess. *)
(* Decoding and resampling are done by the external image crate.  An image *)
(* is [variant, width, height, pixel]: its DynamicImage variant, its size  *)
(* and the value (0 or 255) that every sample of every pixel has; an array *)
(* is [shape, value] with `value` the number every element equals.         *)
(***************************************************************************)
\* Option<T>
None == [some |-> FALSE]
Some(v) == [some |-> TRUE, v |-> v]

PipelineErr(error, msg) == [kind |-> "err", error |-> error, msg |-> msg]

\* resize_image (preprocessing.rs 82-91)
ResizeImage(img, resize) ==
    IF resize.method \in {"bilinear", "nearest", "bicubic"}
    THEN [kind |-> "ok",
          value |-> [img EXCEPT !.width = resize.width, !.height = resize.height]]
    ELSE PipelineErr("FormatError", "Invalid resize method")

\* convert_color_space (preprocessing.rs 93-109)
ConvertColorSpace(img, color_space) ==
    CASE color_space \in {"RGB", "BGR"} ->
            [kind |-> "ok", value |-> [img EXCEPT !.variant = "ImageRgb8"]]
      [] color_space = "GRAYSCALE" ->
            [kind |-> "ok", value |-> [img EXCEPT !.variant = "ImageLuma8"]]
      [] color_space = "None" -> [kind |-> "ok", value |-> img]
      [] OTHER -> PipelineErr("FormatError", color_space)

\* image_to_array (preprocessing.rs 111-138)
ImageToArray(img) ==
    CASE img.variant = "ImageRgb8" ->
            [kind |-> "ok",
             value |-> [shape |-> <<3, img.height, img.width>>, value |-> img.pixel]]
      [] img.variant = "ImageLuma8" ->
            [kind |-> "ok",
             value |-> [shape |-> <<1, img.height, img.width>>, value |-> img.pixel]]
      [] OTHER -> PipelineErr("FormatError", "Unsupported image format")

\* normalize_array without the comparison against the channel count
NormalizeArrayNoChannelCheck(arr, normalize) ==
    LET scaled == IF normalize.scale.some THEN arr.value * normalize.scale.v
                  ELSE arr.value \div 255
    IN  IF normalize.mean.some /\ normalize.std.some
        THEN IF Len(normalize.mean.v) # Len(normalize.std.v)
             THEN PipelineErr("DimensionError",
                              "Mean and std dimensions must match channel count")
             ELSE [kind |-> "ok",
                   value |-> [arr EXCEPT !.value =
                                 (scaled - normalize.mean.v[1]) \div normalize.std.v[1]]]
        ELSE [kind |-> "ok", value |-> [arr EXCEPT !.value = scaled]]

\* normalize_array (preprocessing.rs 140-163).  The mean and std vectors
\* that are enumerated hold the same number in every channel, so the array
\* stays uniform and channel 1 stands for all of them.
NormalizeArray(arr, normalize) ==
    LET scaled == IF normalize.scale.some THEN arr.value * normalize.scale.v
                  ELSE arr.value \div 255
    IN  IF normalize.mean.some /\ normalize.std.some
        THEN IF Len(normalize.mean.v) # Len(normalize.std.v)
                  \/ Len(normalize.mean.v) # arr.shape[1]
             THEN PipelineErr("DimensionError",
                              "Mean and std dimensions must match channel count")
             ELSE [kind |-> "ok",
                   value |-> [arr EXCEPT !.value =
                                 (scaled - normalize.mean.v[1]) \div normalize.std.v[1]]]
        ELSE [kind |-> "ok", value |-> [arr EXCEPT !.value = scaled]]

\* convert_layout whose NHWC arm leaves the axes in channel-first order
ConvertLayoutUnpermuted(arr, layout) ==
    CASE layout = "NCHW" ->
            [kind |-> "ok", value |-> [arr EXCEPT !.shape = <<1>> \o arr.shape]]
      [] layout = "NHWC" ->
            [kind |-> "ok", value |-> [arr EXCEPT !.shape = <<1>> \o arr.shape]]
      [] OTHER -> PipelineErr("FormatError", "Invalid layout")

\* convert_layout (preprocessing.rs 165-171)
ConvertLayout(arr, layout) ==
    CASE layout = "NCHW" ->
            [kind |-> "ok", value |-> [arr EXCEPT !.shape = <<1>> \o arr.shape]]
      [] layout = "NHWC" ->
            [kind |-> "ok",
             value |-> [arr EXCEPT !.shape = <<1, arr.shape[2], arr.shape[3], arr.shape[1]>>]]
      [] OTHER -> PipelineErr("FormatError", "Invalid layout")

\* ImagePreprocessor::process (preprocessing.rs 47-80)
Process(img, opts) ==
    IF img.variant = "undecodable" THEN PipelineErr("ImageError", "load_from_memory")
    ELSE
    LET resized == IF opts.resize.some THEN ResizeImage(img, opts.resize.v)
                   ELSE [kind |-> "ok", value |-> img]
    IN  IF resized.kind = "err" THEN resized ELSE
    LET converted == ConvertColorSpace(resized.value, opts.color_space)
    IN  IF converted.kind = "err" THEN converted ELSE
    LET arr == ImageToArray(converted.value)
    IN  IF arr.kind = "err" THEN arr ELSE
    LET normalized == IF opts.normalize.some
                      THEN NormalizeArray(arr.value, opts.normalize.v)
                      ELSE arr
    IN  IF normalized.kind = "err" THEN normalized ELSE
        IF opts.layout # "None" THEN ConvertLayout(normalized.value, opts.layout)
        ELSE normalized

\* bit pattern of 255.0f32
F32Of255 == 1132396544

\* the f32 bit pattern of an element value
F32Bits(v) == CASE v = 0 -> 0 [] v = 1 -> F32One [] v = 255 -> F32Of255

\* MLInference::preprocess (lib.rs 119-128) from line 123 on: pre_image and
\* pre_options are what read_buffer and read_preprocessing_options decoded
MlPreprocess ==
    LET processed == Process(pre_image, pre_options)
    IN  /\ module = "ml-inference"
        /\ pre_image.variant # "none"
        /\ Len(ml_issued) < MaxWrites
        /\ IF processed.kind = "err"
           THEN /\ ret' = [op |-> "preprocess", panic |-> FALSE, value |-> 0,
                           err |-> TRUE, msg |-> processed.msg]
                /\ UNCHANGED <<mlVars, enc>>
           ELSE LET shape == processed.value.shape
                    t == [shape |-> shape,
                          data |-> [i \in 1..Product(shape) |-> F32Bits(processed.value.value)]]
                    total_size == 4 * (1 + Len(shape)) + 4 * Len(t.data)
                    plan == MlAllocatePlan(ml_memory, total_size, overflow_checks)
                IN  /\ ~plan.panic
                    /\ ml_memory' = WriteBytes(Resize(ml_memory, plan.new_len), plan.ptr,
                                               TensorBytes(t))
                    /\ ml_issued' = Append(ml_issued, [offset |-> plan.ptr, size |-> total_size])
                    /\ ret' = [op |-> "preprocess", panic |-> FALSE, value |-> plan.ptr,
                               err |-> FALSE, msg |-> "", shape |-> shape]
                    /\ enc' = [kind |-> "tensor", value |-> t, offset |-> plan.ptr]
                    /\ UNCHANGED <<ml_model, ml_metadata, ml_config>>
        /\ UNCHANGED <<buildVars, imageVars, docVars, chunkVars, tpVars, dec>>

\* decoded inputs: bytes that are no image, and one image per variant
Images ==
    {[variant |-> "undecodable"],
     [variant |-> "ImageRgb8", width |-> MaxDim, height |-> 1, pixel |-> 255],
     [variant |-> "ImageLuma8", width |-> 1, height |-> MaxDim, pixel |-> 255],
     [variant |-> "ImageRgba8", width |-> 1, height |-> 1, pixel |-> 0]}

ResizeInputs ==
    {None, Some([width |-> 1, height |-> MaxDim, method |-> "bilinear"]),
     Some([width |-> MaxDim, height |-> MaxDim, method |-> "invalid"])}

\* no normalisation, scaling only, and mean/std of 3 and 1 channels, matching
\* and not matching each other
NormalizeInputs ==
    {None,
     Some([mean |-> None, std |-> None, scale |-> None]),
     Some([mean |-> Some(<<0, 0, 0>>), std |-> Some(<<1, 1, 1>>), scale |-> None]),
     Some([mean |-> Some(<<0>>), std |-> Some(<<1>>), scale |-> Some(1)]),
     Some([mean |-> Some(<<0, 0, 0>>), std |-> Some(<<1>>), scale |-> None])}

PreprocessingOptions ==
    [resize : ResizeInputs, normalize : NormalizeInputs,
     color_space : {"None", "RGB", "BGR", "GRAYSCALE", "INVALID"},
     layout : {"None", "NCHW", "NHWC", "INVALID"}]

\* a run draws the inputs of preprocess, or none: then it exercises
\* write_config and load_model instead
InitPre ==
    /\ module = "ml-inference"
    /\ overflow_checks \in BOOLEAN
    /\ ChunkIdle
    /\ TpNew
    /\ MlNew
    /\ ret = NoRet
    /\ CodecIdle
    /\ DocNew
    /\ \/ pre_image \in Images /\ pre_options \in PreprocessingOptions
       \/ ImageIdle

NextPre ==
    \/ MlPreprocess
    \/ \E c \in ModelConfigs :
          /\ pre_image.variant = "none"
          /\ ~c.use_gpu /\ c.batch_size = 1 /\ c.precision = "fp32"
          /\ MlWriteConfig(c)
    \/ \E data \in ModelInputs, config_ptr \in ConfigPtrs, parse \in ParseOutcomes :
          /\ pre_image.variant = "none"
          /\ MlLoadModel(data, config_ptr, parse)

SpecPre == InitPre /\ [][NextPre]_vars

(***************************************************************************)
(* Text chunker (text-processing/rust/src/lib.rs).                         *)
(* A text is the sequence of its extended grapheme clusters; a grapheme is *)
(* a string.  Wave stands for the emoji U+1F44B (4 bytes in UTF-8).        *)
(***************************************************************************)
Wave == "U+1F44B"

\* number of UTF-8 bytes of a grapheme
ByteLen(g) == IF g = Wave THEN 4 ELSE 1

\* the character class [.!?]
IsPunct(g) == g \in {".", "!", "?"}
\* the character class \s
IsSpace(g) == g \in {" ", "\n", "\t"}

RECURSIVE BytesOf(_, _, _)
\* bytes of the graphemes w[i..j-1] in the concatenated string
BytesOf(w, i, j) == IF i >= j THEN 0 ELSE ByteLen(w[i]) + BytesOf(w, i + 1, j)

RECURSIVE PunctRunEnd(_, _)
\* first index at or after i that is not matched by [.!?]+
PunctRunEnd(w, i) ==
    IF i <= Len(w) /\ IsPunct(w[i]) THEN PunctRunEnd(w, i + 1) ELSE i

RECURSIVE SpaceRunEnd(_, _)
\* first index at or after i that is not matched by \s+
SpaceRunEnd(w, i) ==
    IF i <= Len(w) /\ IsSpace(w[i]) THEN SpaceRunEnd(w, i + 1) ELSE i

RECURSIVE FindIter(_, _)
\* SENTENCE_BOUNDARY.find_iter(w.concat()).map(|m| m.end()): the end offsets,
\* in BYTES of the concatenated string, of the successive leftmost matches
\* of [.!?]+\s+ searched from grapheme index i
FindIter(w, i) ==
    IF i > Len(w) THEN <<>>
    ELSE LET j == PunctRunEnd(w, i)
             k == SpaceRunEnd(w, j)
         IN  IF j > i /\ k > j
             THEN <<BytesOf(w, 1, k)>> \o FindIter(w, k)
             ELSE FindIter(w, i + 1)

RECURSIVE TrimStart(_)
TrimStart(s) ==
    IF s # <<>> /\ IsSpace(Head(s)) THEN TrimStart(Tail(s)) ELSE s

RECURSIVE TrimEnd(_)
TrimEnd(s) ==
    IF s # <<>> /\ IsSpace(s[Len(s)]) THEN TrimEnd(SubSeq(s, 1, Len(s) - 1)) ELSE s

\* str::trim
Trim(s) == TrimEnd(TrimStart(s))

\* graphemes[a..b]: the slice panics when a > b or b > len
SliceOk(w, a, b) == a <= b /\ b <= Len(w)
Slice(w, a, b) == SubSeq(w, a + 1, b)

\* lines 93-102: the end of the chunk that starts at s.
\* Result: [panic |-> TRUE] or [panic |-> FALSE, chunk_end |-> n]
ChunkEnd(w, cfg, s, checks) ==
    IF AddOverflows(s, cfg.chunk_size) /\ checks
    THEN [panic |-> TRUE, chunk_end |-> 0]
    ELSE LET end == Min(WrappingAdd(s, cfg.chunk_size), Len(w))
         IN  IF end < Len(w)
             THEN IF ~SliceOk(w, s, end)
                  THEN [panic |-> TRUE, chunk_end |-> 0]
                  ELSE LET ms == FindIter(Slice(w, s, end), 1)
                       IN  IF ms # <<>>
                           THEN [panic |-> FALSE, chunk_end |-> s + ms[Len(ms)]]
                           ELSE [panic |-> FALSE, chunk_end |-> end]
             ELSE [panic |-> FALSE, chunk_end |-> end]

\* lines 105-120: the TextChunk pushed for graphemes[s..e]
MakeChunk(w, cfg, s, e) ==
    [text     |-> IF cfg.trim_chunks THEN Trim(Slice(w, s, e)) ELSE Slice(w, s, e),
     start    |-> s,
     end      |-> e,
     metadata |-> [language |-> "None", confidence |-> "1.0"]]

\* line 122: start = chunk_end - config.overlap
\* Result: [panic |-> TRUE] or [panic |-> FALSE, start |-> n]
NextStart(e, cfg, checks) ==
    IF SubOverflows(e, cfg.overlap) /\ checks
    THEN [panic |-> TRUE, start |-> 0]
    ELSE [panic |-> FALSE, start |-> WrappingSub(e, cfg.overlap)]

\* the loop body entered without testing `start < graphemes.len()`
ChunkStepUnguarded ==
    /\ module = "text-processing"
    /\ pc = "loop"
    /\ Len(chunks) < MaxChunks
    /\ LET ce == ChunkEnd(text, config, start, overflow_checks)
       IN  IF ce.panic \/ ~SliceOk(text, start, ce.chunk_end)
           THEN /\ pc' = "panic"
                /\ UNCHANGED <<start, chunks>>
           ELSE LET ns == NextStart(ce.chunk_end, config, overflow_checks)
                IN  /\ chunks' = Append(chunks, MakeChunk(text, config, start, ce.chunk_end))
                    /\ IF ns.panic
                       THEN pc' = "panic" /\ UNCHANGED start
                       ELSE pc' = "loop" /\ start' = ns.start
    /\ UNCHANGED <<buildVars, imageVars, docVars, codecVars, text, config, tpVars, mlVars, ret>>

\* lines 92-123: one iteration of `while start < graphemes.len()`
ChunkStep ==
    /\ module = "text-processing"
    /\ pc = "loop"
    /\ start < Len(text)
    /\ Len(chunks) < MaxChunks
    /\ LET ce == ChunkEnd(text, config, start, overflow_checks)
       IN  IF ce.panic \/ ~SliceOk(text, start, ce.chunk_end)
           THEN /\ pc' = "panic"
                /\ UNCHANGED <<start, chunks>>
           ELSE LET ns == NextStart(ce.chunk_end, config, overflow_checks)
                IN  /\ chunks' = Append(chunks, MakeChunk(text, config, start, ce.chunk_end))
                    /\ IF ns.panic
                       THEN pc' = "panic" /\ UNCHANGED start
                       ELSE pc' = "loop" /\ start' = ns.start
    /\ UNCHANGED <<buildVars, imageVars, docVars, codecVars, text, config, tpVars, mlVars, ret>>

\* lines 92, 125: the loop condition fails and the chunks are returned
ChunkReturn ==
    /\ module = "text-processing"
    /\ pc = "loop"
    /\ start >= Len(text)
    /\ pc' = "done"
    /\ UNCHANGED <<buildVars, imageVars, docVars, codecVars, text, config, start, chunks, tpVars, mlVars, ret>>

Alphabet == {"a", ".", " ", Wave}

RECURSIVE TextsOfLen(_)
TextsOfLen(n) ==
    IF n = 0 THEN {<<>>}
    ELSE {Append(t, g) : t \in TextsOfLen(n - 1), g \in Alphabet}

Texts == UNION {TextsOfLen(n) : n \in 0..MaxLen}

SizeValues == (0..MaxCfg) \cup {UsizeMax}

Configs ==
    [chunk_size : SizeValues, overlap : SizeValues,
     preserve_whitespace : {FALSE}, preserve_newlines : {TRUE},
     trim_chunks : BOOLEAN]

\* tests.rs lines 11-18 (test_chunk_text_basic)
ExampleText ==
   <<"T", "h", "i", "s", " ", "i", "s", " ", "a", " ", "t", "e", "s", "t", " ", "s",
      "e", "n", "t", "e", "n", "c", "e", ".", " ", "A", "n", "d", " ", "a", "n", "o",
      "t", "h", "e", "r", " ", "o", "n", "e", ".", " ", "A", "n", "d", " ", "a", " ",
      "t", "h", "i", "r", "d", ".">>

ExampleConfig ==
    [chunk_size |-> 20, overlap |-> 5,
     preserve_whitespace |-> FALSE, preserve_newlines |-> TRUE,
     trim_chunks |-> TRUE]

\* tests.rs lines 25-28: the chunk texts the test expects
ExampleExpected ==
    <<
   <<"T", "h", "i", "s", " ", "i", "s", " ", "a", " ", "t", "e", "s", "t", " ", "s",
      "e", "n", "t", "e", "n", "c", "e", ".">>,
   <<"A", "n", "d", " ", "a", "n", "o", "t", "h", "e", "r", " ", "o", "n", "e", ".">>,
   <<"A", "n", "d", " ", "a", " ", "t", "h", "i", "r", "d", ".">>
    >>

\* an emoji before a sentence boundary, as in the text of tests.rs line 80
UnicodeText == <<Wave, ".", " ", "a", "a", "a", "a">>

UnicodeConfig ==
    [chunk_size |-> 3, overlap |-> 0,
     preserve_whitespace |-> TRUE, preserve_newlines |-> TRUE,
     trim_chunks |-> FALSE]

ChunkInputs ==
    (Texts \X Configs) \cup {<<ExampleText, ExampleConfig>>, <<UnicodeText, UnicodeConfig>>}

InitChunk ==
    /\ module = "text-processing"
    /\ overflow_checks \in BOOLEAN
    /\ \E inp \in ChunkInputs : text = inp[1] /\ config = inp[2]
    /\ pc = "loop"
    /\ start = 0
    /\ chunks = <<>>
    /\ TpNew
    /\ MlNew
    /\ ret = NoRet
    /\ CodecIdle
    /\ DocNew
    /\ ImageIdle

NextChunk == ChunkStep \/ ChunkReturn

SpecChunk == InitChunk /\ [][NextChunk]_vars

(***************************************************************************)
(* TextProcessor: the string and config readers and the writers whose      *)
(* bytes they decode (text-processing/rust/src/lib.rs).                    *)
(***************************************************************************)
\* the character U+0000, which a Rust string may contain
Nul == "U+0000"

\* the UTF-8 bytes of a grapheme
Utf8(g) ==
    CASE g = Wave -> <<240, 159, 145, 139>>
      [] g = Nul  -> <<0>>
      [] g = "a"  -> <<97>>
      [] g = "."  -> <<46>>
      [] g = " "  -> <<32>>

\* the code point of a grapheme
CodePoint(g) ==
    CASE g = Wave -> 128075
      [] g = Nul  -> 0
      [] g = "a"  -> 97
      [] g = "."  -> 46
      [] g = " "  -> 32

\* str::as_bytes of a text given as graphemes
AsBytes(w) == Concat([i \in 1..Len(w) |-> Utf8(w[i])])

\* TextProcessor::write_string (lib.rs 180-186): the bytes and a NUL terminator
TpWriteStringPlan(mem, bytes, checks) ==
    LET plan == TpAllocatePlan(mem, Len(bytes) + 1, checks)
    IN  [panic |-> plan.panic, ptr |-> plan.ptr, aligned |-> plan.aligned,
         mem |-> IF plan.panic THEN mem
                 ELSE WriteBytes(Resize(mem, plan.new_len), plan.ptr, bytes \o <<0>>)]

\* write_string(s); the caller may keep the returned offset (enc)
TpWriteString(s) ==
    LET bytes == AsBytes(s)
        w == TpWriteStringPlan(tp_memory, bytes, overflow_checks)
    IN  /\ module = "text-processing"
        /\ Len(tp_issued) < MaxAllocs
        /\ ~w.panic
        /\ Len(w.mem) <= MaxMem
        /\ tp_memory' = w.mem
        /\ tp_allocated' = Append(tp_allocated, <<w.ptr, w.aligned>>)
        /\ tp_issued' = Append(tp_issued, [offset |-> w.ptr, size |-> Len(bytes) + 1])
        /\ ret' = [op |-> "write_string", panic |-> FALSE, value |-> w.ptr]
        /\ \E keep \in BOOLEAN :
              enc' = IF keep THEN [kind |-> "string", value |-> s, offset |-> w.ptr]
                     ELSE enc
        /\ UNCHANGED <<buildVars, imageVars, docVars, dec, chunkVars, mlVars>>

\* 1.0f64.to_bits(), little-endian (lib.rs 201; the confidence of line 117)
F64OneBytes == <<0, 0, 0, 0, 0, 0, 240, 63>>

\* TextProcessor::write_metadata (lib.rs 188-204) of the metadata
\* chunk_text_impl builds: language None (a zero word), confidence 1.0
TpWriteMetadata ==
    LET plan == TpAllocatePlan(tp_memory, 16, overflow_checks)
    IN  /\ module = "text-processing"
        /\ Len(tp_issued) < MaxAllocs
        /\ ~plan.panic
        /\ plan.new_len <= MaxMem
        /\ tp_memory' = WriteBytes(Resize(tp_memory, plan.new_len), plan.ptr,
                                   Zeros(8) \o F64OneBytes)
        /\ tp_allocated' = Append(tp_allocated, <<plan.ptr, plan.aligned>>)
        /\ tp_issued' = Append(tp_issued, [offset |-> plan.ptr, size |-> 16])
        /\ ret' = [op |-> "write_metadata", panic |-> FALSE, value |-> plan.ptr]
        /\ UNCHANGED <<buildVars, imageVars, docVars, codecVars, chunkVars, mlVars>>

\* a UTF-8 continuation byte
IsCont(b) == 128 <= b /\ b <= 191

RECURSIVE FromUtf8Lossy(_)
\* String::from_utf8_lossy, as code points: ASCII and well-formed 4-byte
\* sequences (the forms the enumerated strings contain) decode to their
\* character; a byte that starts no such sequence becomes U+FFFD
FromUtf8Lossy(bytes) ==
    IF bytes = <<>> THEN <<>>
    ELSE LET b == bytes[1]
         IN  IF b < 128 THEN <<b>> \o FromUtf8Lossy(Tail(bytes))
             ELSE IF /\ b \in 240..244 /\ Len(bytes) >= 4
                     /\ IsCont(bytes[2]) /\ IsCont(bytes[3]) /\ IsCont(bytes[4])
                     /\ (b = 240 => bytes[2] >= 144) /\ (b = 244 => bytes[2] <= 143)
                  THEN <<(b - 240) * 262144 + (bytes[2] - 128) * 4096
                            + (bytes[3] - 128) * 64 + (bytes[4] - 128)>>
                         \o FromUtf8Lossy(SubSeq(bytes, 5, Len(bytes)))
                  ELSE <<65533>> \o FromUtf8Lossy(Tail(bytes))

\* read_string that keeps the terminator in the returned string
TpReadStringAtWithNul(mem, ptr) ==
    LET nuls == {i \in ptr..(Len(mem) - 1) : mem[i + 1] = 0}
    IN  IF nuls = {} THEN [kind |-> "panic"]
        ELSE LET e == CHOOSE i \in nuls : \A j \in nuls : i <= j
             IN  [kind |-> "ok", value |-> FromUtf8Lossy(SubSeq(mem, ptr + 1, e + 1))]

\* TextProcessor::read_string (lib.rs 128-134): memory[ptr + len] is a checked
\* index, so the scan panics when it leaves the buffer before a NUL
TpReadStringAt(mem, ptr) ==
    LET nuls == {i \in ptr..(Len(mem) - 1) : mem[i + 1] = 0}
    IN  IF nuls = {} THEN [kind |-> "panic"]
        ELSE LET e == CHOOSE i \in nuls : \A j \in nuls : i <= j
             IN  [kind |-> "ok", value |-> FromUtf8Lossy(SubSeq(mem, ptr + 1, e))]

\* TextProcessor::read_config (lib.rs 136-151): memory[ptr..] panics when
\* ptr > len; the 5 words are then read through a raw pointer, unchecked
TpReadConfigAt(mem, ptr) ==
    IF ptr > Len(mem) THEN [kind |-> "panic"]
    ELSE IF ~WordsInBounds(mem, ptr, 5) THEN [kind |-> "ub"]
    ELSE LET slice == [i \in 0..4 |-> I32At(mem, ptr + 4 * i)]
         IN  [kind |-> "ok",
              value |-> [chunk_size          |-> I32AsUsize(slice[0]),
                         overlap             |-> I32AsUsize(slice[1]),
                         preserve_whitespace |-> slice[2] # 0,
                         preserve_newlines   |-> slice[3] # 0,
                         trim_chunks         |-> slice[4] # 0]]

TpReadString(ptr) ==
    /\ module = "text-processing"
    /\ ret' = [op |-> "read_string", panic |-> FALSE, value |-> 0,
               ptr |-> ptr, result |-> TpReadStringAt(tp_memory, ptr)]
    /\ UNCHANGED <<buildVars, imageVars, docVars, codecVars, chunkVars, tpVars, mlVars>>

TpReadConfig(ptr) ==
    /\ module = "text-processing"
    /\ \E r \in Outcomes(TpReadConfigAt(tp_memory, ptr)) :
          ret' = [op |-> "read_config", panic |-> FALSE, value |-> 0,
                  ptr |-> ptr, result |-> r]
    /\ UNCHANGED <<buildVars, imageVars, docVars, codecVars, chunkVars, tpVars, mlVars>>

\* a short string, one that fills its 8-byte block, and one with U+0000
TpStrings == {<<"a">>, <<Wave, ".", " ", "a">>, <<"a", Nul, "a">>}

\* offsets a caller passes: block starts, offsets inside a block, the end of
\* the buffer, and usize::MAX (tests.rs 105, 111)
TpReadPtrs ==
    {0, 4, 8, 14, Len(tp_memory), UsizeMax}
        \cup (IF enc.kind = "string" THEN {enc.offset} ELSE {})

InitRead ==
    /\ module = "text-processing"
    /\ overflow_checks \in BOOLEAN
    /\ ChunkIdle
    /\ TpNew
    /\ MlNew
    /\ ret = NoRet
    /\ CodecIdle
    /\ DocNew
    /\ ImageIdle

NextRead ==
    \/ \E size \in {8, 24} : TpAllocate(size)
    \/ \E s \in TpStrings : TpWriteString(s)
    \/ TpWriteMetadata
    \/ \E ptr \in TpReadPtrs : TpReadString(ptr)
    \/ \E ptr \in TpReadPtrs : TpReadConfig(ptr)
    \/ TpCleanup

SpecRead == InitRead /\ [][NextRead]_vars

(***************************************************************************)
(* TextProcessor::write_chunks: the chunk list chunk_text and process_text *)
(* return (lib.rs 153-222).                                                *)
(***************************************************************************)
\* self.allocate(size) followed by a write of `bytes` at the returned offset,
\* on an arena st = [panic, mem, allocated, issued]; ptr is the returned offset
TpAllocWrite(st, size, bytes) ==
    LET plan == TpAllocatePlan(st.mem, size, overflow_checks)
    IN  IF st.panic \/ plan.panic
        THEN [st EXCEPT !.panic = TRUE]
        ELSE [panic |-> FALSE,
              mem |-> WriteBytes(Resize(st.mem, plan.new_len), plan.ptr, bytes),
              allocated |-> Append(st.allocated, <<plan.ptr, plan.aligned>>),
              issued |-> Append(st.issued, [offset |-> plan.ptr, size |-> size]),
              ptr |-> plan.ptr]

RECURSIVE WriteChunkTexts(_, _, _, _)
\* lines 157-161: write_string and write_metadata for the chunks cs[i..];
\* chunks_data collects the (text_ptr, start, end, metadata_ptr) of each
WriteChunkTexts(st, chunks_data, cs, i) ==
    IF i > Len(cs) \/ st.panic THEN [st |-> st, chunks_data |-> chunks_data]
    ELSE LET bytes == AsBytes(cs[i].text)
             t == TpAllocWrite(st, Len(bytes) + 1, bytes \o <<0>>)
             m == TpAllocWrite(t, 16, Zeros(8) \o F64OneBytes)
         IN  WriteChunkTexts(m,
                 Append(chunks_data, <<t.ptr, cs[i].start, cs[i].end, m.ptr>>),
                 cs, i + 1)

\* write_chunk_data (lines 206-222): 24 bytes per chunk, of which the first
\* four words are written
ChunkDataBytes(chunks_data) ==
    Concat([i \in 1..Len(chunks_data) |->
               Le32(chunks_data[i][1]) \o Le32(chunks_data[i][2])
                 \o Le32(chunks_data[i][3]) \o Le32(chunks_data[i][4]) \o Zeros(8)])

\* write_chunks (lines 153-178): the 12-byte result structure is allocated
\* first and filled last with (count, 0, chunks_ptr)
WriteChunksPlan(mem, allocated, issued, cs) ==
    LET r == TpAllocWrite([panic |-> FALSE, mem |-> mem, allocated |-> allocated,
                           issued |-> issued, ptr |-> 0], 12, <<>>)
        w == WriteChunkTexts(r, <<>>, cs, 1)
        d == TpAllocWrite(w.st, Len(cs) * 24, ChunkDataBytes(w.chunks_data))
    IN  IF d.panic THEN d
        ELSE [d EXCEPT !.mem = WriteBytes(d.mem, r.ptr,
                                          Le32(Len(cs)) \o Le32(0) \o Le32(d.ptr)),
                       !.ptr = r.ptr]

\* the tail of chunk_text (line 84): the chunks chunk_text_impl returned are
\* written to the arena and the offset of the result structure is returned
TpWriteChunks ==
    LET w == WriteChunksPlan(tp_memory, tp_allocated, tp_issued, chunks)
    IN  /\ module = "text-processing"
        /\ pc = "done"
        /\ ~w.panic
        /\ pc' = "written"
        /\ tp_memory' = w.mem
        /\ tp_allocated' = w.allocated
        /\ tp_issued' = w.issued
        /\ ret' = [op |-> "write_chunks", panic |-> FALSE, value |-> w.ptr]
        /\ UNCHANGED <<buildVars, imageVars, docVars, codecVars, text, config, start, chunks, mlVars>>

\* texts over the alphabet with configs under which the chunker returns
LayoutInputs ==
    {inp \in Texts \X Configs :
        inp[2].overlap = 0 /\ inp[2].chunk_size \in 1..MaxCfg}

InitLayout ==
    /\ module = "text-processing"
    /\ overflow_checks \in BOOLEAN
    /\ \E inp \in LayoutInputs : text = inp[1] /\ config = inp[2]
    /\ pc = "loop"
    /\ start = 0
    /\ chunks = <<>>
    /\ TpNew
    /\ MlNew
    /\ ret = NoRet
    /\ CodecIdle
    /\ DocNew
    /\ ImageIdle

NextLayout == ChunkStep \/ ChunkReturn \/ TpWriteChunks

SpecLayout == InitLayout /\ [][NextLayout]_vars

(***************************************************************************)
(* DocumentProcessor: malloc, free and the process_document dispatcher.    *)
(* The format handlers parse with external crates (pdf, docx, zip, image); *)
(* whether a parse succeeds, fails with Err or panics is an input here.    *)
(***************************************************************************)
PdfMagic == <<37, 80, 68, 70>>
ZipMagic == <<80, 75, 3, 4>>
JpegMagic == <<255, 216, 255>>
PngMagic == <<137, 80, 78, 71>>

\* detect_file_type (lib.rs 161-171)
DetectFileType(data) ==
    IF StartsWith(data, PdfMagic) THEN "pdf"
    ELSE IF StartsWith(data, ZipMagic) THEN "docx"
    ELSE IF StartsWith(data, JpegMagic) THEN "image"
    ELSE "unknown"

\* DocumentMetadata without the two timestamps, which are wall-clock values
Metadata(file_size, page_count, file_type) ==
    [file_size |-> file_size, page_count |-> page_count, file_type |-> file_type]

\* Option<String> / Option<Vec<..>>: only presence is modelled
OptionOf(present) == IF present THEN "Some" ELSE "None"

\* PdfProcessor::process (pdf.rs 9-32)
ProcessPdf(data, options, outcome) ==
    IF outcome = "ok"
    THEN [kind |-> "ok",
          value |-> [metadata |-> Metadata(Len(data), 1, "pdf"),
                     text |-> OptionOf(options.extract_text),
                     images |-> OptionOf(options.extract_images),
                     error |-> "None"]]
    ELSE [kind |-> outcome, msg |-> "pdf error"]

\* DocxProcessor::process (docx.rs 11-35)
ProcessDocx(data, options, outcome) ==
    IF outcome = "ok"
    THEN [kind |-> "ok",
          value |-> [metadata |-> Metadata(Len(data), 1, "docx"),
                     text |-> OptionOf(options.extract_text),
                     images |-> OptionOf(options.extract_images),
                     error |-> "None"]]
    ELSE [kind |-> outcome, msg |-> "docx error"]

\* ImageProcessor::process (image.rs 10-34); data routed here starts with the
\* JPEG magic, so guess_format yields Jpeg and format_to_string "jpeg"
ProcessImage(data, options, outcome) ==
    IF outcome = "ok"
    THEN [kind |-> "ok",
          value |-> [metadata |-> Metadata(Len(data), 1, "jpeg"),
                     text |-> OptionOf(options.perform_ocr),
                     images |-> OptionOf(options.extract_images),
                     error |-> "None"]]
    ELSE [kind |-> outcome, msg |-> "image error"]

\* the record of lib.rs 97-108 with file_size forced to zero
HandlerErrorResultZeroSize(data, msg) ==
    [metadata |-> Metadata(0, 0, "unknown"),
     text |-> "None", images |-> "None", error |-> msg]

\* the record built when the dispatch returns Err (lib.rs 97-108)
HandlerErrorResult(data, msg) ==
    [metadata |-> Metadata(Len(data), 0, "unknown"),
     text |-> "None", images |-> "None", error |-> msg]

\* the record built when catch_unwind returns Err (lib.rs 131-142)
InternalErrorResult ==
    [metadata |-> Metadata(0, 0, "unknown"),
     text |-> "None", images |-> "None", error |-> "Internal processing error"]

\* the match on detect_file_type (lib.rs 87-92)
Dispatch(data, options, outcome) ==
    LET file_type == DetectFileType(data)
    IN  IF file_type = "pdf" THEN ProcessPdf(data, options, outcome)
        ELSE IF file_type = "docx" THEN ProcessDocx(data, options, outcome)
        ELSE IF file_type = "image" THEN ProcessImage(data, options, outcome)
        ELSE [kind |-> "err", msg |-> "Unsupported file type"]

\* the closure handed to catch_unwind (lib.rs 72-126): a panic inside it
\* (options that do not parse, line 84, or a panic in a handler) unwinds to
\* catch_unwind; otherwise it yields the ProcessingResult to serialise
Closure(data, options, outcome) ==
    IF ~options.parsed
    THEN [panicked |-> TRUE]
    ELSE LET result == Dispatch(data, options, outcome)
         IN  IF result.kind = "panic"
             THEN [panicked |-> TRUE]
             ELSE [panicked |-> FALSE,
                   value |-> IF result.kind = "ok"
                             THEN result.value
                             ELSE HandlerErrorResult(data, result.msg)]

\* which failure, if any, a call runs into
DocFailure(data, options, outcome) ==
    IF ~options.parsed THEN "options"
    ELSE IF DetectFileType(data) = "unknown" THEN "unsupported"
    ELSE IF outcome = "err" THEN "handler_error"
    ELSE IF outcome = "panic" THEN "handler_panic"
    ELSE "none"

\* Vec::resize inside malloc (lib.rs 55): a resize to at most the current
\* length truncates in place; a longer one keeps the buffer when the
\* capacity suffices and otherwise reallocates, which may move it.  The
\* capacity is not part of the state, so both outcomes are possible then.
ResizeMoves(len, size) == IF size <= len THEN {FALSE} ELSE BOOLEAN

\* malloc (lib.rs 53-57): the whole buffer is resized to `size` and its base
\* pointer (offset 0) is returned; a size above isize::MAX panics in resize
DocMalloc(size) ==
    /\ module = "document-processor"
    /\ IF size > IsizeMax
       THEN /\ ret' = [op |-> "malloc", panic |-> TRUE, value |-> 0,
                       size |-> size, moved |-> FALSE]
            /\ UNCHANGED doc_memory
       ELSE /\ doc_memory' = size
            /\ \E moved \in ResizeMoves(doc_memory, size) :
                  ret' = [op |-> "malloc", panic |-> FALSE, value |-> 0,
                          size |-> size, moved |-> moved]
    /\ UNCHANGED <<buildVars, imageVars, chunkVars, tpVars, mlVars, codecVars, doc_call, doc_result>>

\* free (lib.rs 59-62)
DocFree ==
    /\ module = "document-processor"
    /\ doc_memory' = 0
    /\ ret' = [op |-> "free", panic |-> FALSE, value |-> 0,
               size |-> 0, moved |-> FALSE]
    /\ UNCHANGED <<buildVars, imageVars, chunkVars, tpVars, mlVars, codecVars, doc_call, doc_result>>

\* process_document (lib.rs 65-158).  The serialised JSON has some positive
\* length json_len (it depends on timestamps and messages); malloc(json_len)
\* resizes the buffer and the JSON is copied to its base.
ProcessDocument(data, options, outcome) ==
    LET c == Closure(data, options, outcome)
        result == IF c.panicked THEN InternalErrorResult ELSE c.value
    IN  /\ module = "document-processor"
        /\ \E json_len \in 1..MaxJson :
              /\ doc_memory' = json_len
              /\ doc_result' = [returned |-> TRUE, ptr |-> 0, len |-> json_len,
                                value |-> result]
              /\ \E moved \in ResizeMoves(doc_memory, json_len) :
                    ret' = [op |-> "process_document", panic |-> FALSE,
                            value |-> 0, size |-> json_len, moved |-> moved]
        /\ doc_call' = [op |-> "process_document", data |-> data,
                        options |-> options, outcome |-> outcome,
                        handler |-> IF options.parsed THEN DetectFileType(data)
                                    ELSE "none"]
        /\ UNCHANGED <<buildVars, imageVars, chunkVars, tpVars, mlVars, codecVars>>

\* documents: empty, the three routed magics (one with a tail), a PNG
\* signature, the 4 bytes of the crate's invalid-data tests
Documents ==
    {<<>>, PdfMagic \o <<45>>, ZipMagic, JpegMagic, PngMagic, <<1, 2, 3, 4>>}

Unparseable == [parsed |-> FALSE]

\* bytes that are not a ProcessingOptions, the four text/image selections
\* without OCR, and the all-true options of the image tests
OptionsInputs ==
    {Unparseable} \cup
    [parsed : {TRUE}, extract_text : BOOLEAN, extract_images : BOOLEAN,
     perform_ocr : {FALSE}] \cup
    {[parsed |-> TRUE, extract_text |-> TRUE, extract_images |-> TRUE,
      perform_ocr |-> TRUE]}

HandlerOutcomes == {"ok", "err", "panic"}

MallocSizes == (0..MaxJson) \cup {UsizeMax}

InitDoc ==
    /\ module = "document-processor"
    /\ overflow_checks \in BOOLEAN
    /\ ChunkIdle
    /\ TpNew
    /\ MlNew
    /\ ret = NoRet
    /\ CodecIdle
    /\ DocNew
    /\ ImageIdle

NextDoc ==
    \/ \E size \in MallocSizes : DocMalloc(size)
    \/ DocFree
    \/ \E data \in Documents, options \in OptionsInputs, outcome \in HandlerOutcomes :
          ProcessDocument(data, options, outcome)

SpecDoc == InitDoc /\ [][NextDoc]_vars

(***************************************************************************)
(* Claims about the chunker, checked under SpecChunk.                      *)
(***************************************************************************)
\* C1: chunk_text_impl terminates for every text and config: the loop
\* `while start < length` always exits.  One iteration is a function of the
\* cursor alone (text and config are fixed), so the loop exits exactly when
\* no cursor value is ever visited twice.
C1_LoopExits ==
    \A i, j \in 1..Len(chunks) : i < j => chunks[i].start # chunks[j].start

\* C4: coverage: for every text of length L > 0 the returned chunks start at
\* 0, each later chunk starts at or before the end of the previous one, and
\* the last chunk ends at L.
C4_Coverage ==
    (pc = "done" /\ Len(text) > 0) =>
        /\ Len(chunks) > 0
        /\ chunks[1].start = 0
        /\ \A i \in 2..Len(chunks) : chunks[i].start <= chunks[i - 1].end
        /\ chunks[Len(chunks)].end = Len(text)

\* C5: overlap invariant: whenever overlap > 0 and more than one chunk is
\* produced, every chunk after the first starts before the end of the
\* previous chunk.
C5_Overlap ==
    (config.overlap > 0 /\ Len(chunks) > 1) =>
        \A i \in 2..Len(chunks) : chunks[i].start < chunks[i - 1].end

\* C6: chunking the example text with chunk_size 20, overlap 5 and trimming
\* yields exactly the three chunks the test expects: at every moment the
\* chunks pushed are the first chunks of the expected list, and the returned
\* list is the whole expected list.
C6_Example ==
    (text = ExampleText /\ config = ExampleConfig) =>
        /\ Len(chunks) <= Len(ExampleExpected)
        /\ \A i \in 1..Len(chunks) : chunks[i].text = ExampleExpected[i]
        /\ pc = "done" => Len(chunks) = Len(ExampleExpected)

\* C7: a non-empty text shorter than chunk_size yields, for any overlap,
\* exactly one chunk, which spans the whole text.
C7_ShortText ==
    (Len(text) > 0 /\ Len(text) < config.chunk_size) =>
        /\ Len(chunks) <= 1
        /\ \A i \in 1..Len(chunks) : chunks[i].start = 0 /\ chunks[i].end = Len(text)
        /\ pc = "done" => Len(chunks) = 1

(***************************************************************************)
(* Claims about the arenas, checked under SpecArena.                       *)
(***************************************************************************)
\* the allocations issued by the instance under test since its last cleanup
Issued == IF module = "ml-inference" THEN ml_issued ELSE tp_issued

\* C2: after any sequence of allocate, deallocate and cleanup calls on an
\* MLInference or TextProcessor arena, every offset returned by allocate is a
\* multiple of 8, whatever size was requested.
C2_OffsetsAligned ==
    /\ \A i \in 1..Len(tp_issued) : tp_issued[i].offset % 8 = 0
    /\ \A i \in 1..Len(ml_issued) : ml_issued[i].offset % 8 = 0
    /\ (ret.op = "allocate" /\ ~ret.panic) => ret.value % 8 = 0

\* C2 witness: an allocation of a size that is no multiple of 8 was followed
\* by an allocation at a non-zero offset
C2_Witness ==
    /\ ret.op = "allocate" /\ ~ret.panic /\ ret.value > 0
    /\ \E i \in 1..Len(Issued) : Issued[i].size % 8 # 0 /\ Issued[i].size < 16

\* the regions [offset, offset + size) of a and b have no byte in common
RegionsDisjoint(a, b) ==
    \/ a.size = 0
    \/ b.size = 0
    \/ a.offset + a.size <= b.offset
    \/ b.offset + b.size <= a.offset

\* C3: with no intervening cleanup, the regions [offset, offset + size) of
\* any two allocations returned by allocate are disjoint, in both arenas.
C3_RegionsDisjoint ==
    /\ \A i, j \in 1..Len(tp_issued) :
          i < j => RegionsDisjoint(tp_issued[i], tp_issued[j])
    /\ \A i, j \in 1..Len(ml_issued) :
          i < j => RegionsDisjoint(ml_issued[i], ml_issued[j])

(***************************************************************************)
(* Claims about the codec, checked under SpecCodec.                        *)
(***************************************************************************)
\* C8: tensor round trip: for every tensor of rank 1 to 4, decoding with
\* read_tensor from the offset write_tensor returned (as the data offset,
\* with the shape read from that offset or, as test_preprocessing does, from
\* offset 0) reproduces the shape and the flat data that were encoded.
C8_TensorRoundTrip ==
    (enc.kind = "tensor" /\ dec.op = "read_tensor" /\ dec.ptr = enc.offset
        /\ dec.shape_ptr \in {0, enc.offset}) =>
        /\ dec.result.kind = "ok"
        /\ dec.result.shape = enc.value.shape
        /\ dec.result.data = enc.value.data

\* C9: config round trip: read_config at the offset write_config returned
\* yields the seven field values that were encoded.
C9_ConfigRoundTrip ==
    (enc.kind = "config" /\ dec.op = "read_config" /\ dec.ptr = enc.offset) =>
        /\ dec.result.kind = "ok"
        /\ dec.result.value = enc.value

(***************************************************************************)
(* Claims about the document dispatcher, checked under SpecDoc.            *)
(***************************************************************************)
\* the last process_document call ran into a failure
DocFailed ==
    /\ doc_call.op = "process_document"
    /\ DocFailure(doc_call.data, doc_call.options, doc_call.outcome) # "none"

\* C10 as stated: whenever process_document runs into a failure (options
\* that do not parse, an unsupported type, a handler error or a runtime fault
\* in a handler) it still returns a record, with a populated error, absent
\* text and images, and metadata file_size 0, page_count 0, file_type
\* "unknown".
C10_ZeroedErrorRecord ==
    DocFailed =>
        /\ doc_result.returned
        /\ doc_result.value.error # "None"
        /\ doc_result.value.text = "None"
        /\ doc_result.value.images = "None"
        /\ doc_result.value.metadata = Metadata(0, 0, "unknown")

\* C10 amended: as above, except that file_size is 0 only when the failure
\* is a panic caught by catch_unwind (unparseable options, a fault in a
\* handler); for an unsupported type or a handler error it is the length of
\* the input document.
C10_ErrorRecord ==
    DocFailed =>
        LET failure == DocFailure(doc_call.data, doc_call.options, doc_call.outcome)
            file_size == IF failure \in {"options", "handler_panic"}
                         THEN 0 ELSE Len(doc_call.data)
        IN  /\ doc_result.returned
            /\ doc_result.value.error # "None"
            /\ doc_result.value.text = "None"
            /\ doc_result.value.images = "None"
            /\ doc_result.value.metadata = Metadata(file_size, 0, "unknown")

\* a handler returned Err for a non-empty document and a record came back
C10_Witness ==
    /\ DocFailed
    /\ DocFailure(doc_call.data, doc_call.options, doc_call.outcome) = "handler_error"
    /\ Len(doc_call.data) > 0
    /\ doc_result.returned
    /\ doc_result.value.error # "None"

(***************************************************************************)
(* Claims about the processors' lifecycle, checked under SpecLife.         *)
(***************************************************************************)
\* C11: after cleanup, from any reachable state, the arena buffer has length
\* 0 and all bookkeeping is dropped: TextProcessor's allocated list is empty,
\* MLInference's model and metadata are both absent.
C11_CleanupResets ==
    ret.op = "cleanup" =>
        /\ module = "text-processing" => tp_memory = <<>> /\ tp_allocated = <<>>
        /\ module = "ml-inference" =>
              ml_memory = <<>> /\ ml_model = "None" /\ ml_metadata = "None"

\* cleanup has just run on an MLInference on which load_model had replaced
\* the config
C11_Witness ==
    /\ ret.op = "cleanup"
    /\ module = "ml-inference"
    /\ ml_config # DefaultModelConfig
    /\ ml_memory = <<>>

(***************************************************************************)
(* Claims about load_model and preprocess, checked under SpecPre.          *)
(***************************************************************************)
\* model bytes that no loader accepts: an unknown header, or a known header
\* followed by bytes the loader rejects
MalformedModel(data, parse) ==
    \/ ~(StartsWith(data, OnnxMagic) \/ StartsWith(data, TfMagic))
    \/ parse = "load_err"

\* the channel count of the array built from pre_image: 3 for RGB and BGR, 1
\* for GRAYSCALE, else that of the decoded image
Channels ==
    CASE pre_options.color_space \in {"RGB", "BGR"} -> 3
      [] pre_options.color_space = "GRAYSCALE" -> 1
      [] pre_image.variant = "ImageRgb8" -> 3
      [] pre_image.variant = "ImageLuma8" -> 1
      [] OTHER -> 4

\* a resize is requested with a method outside {nearest, bilinear, bicubic}
BadResizeMethod ==
    /\ pre_options.resize.some
    /\ pre_options.resize.v.method \notin {"nearest", "bilinear", "bicubic"}

\* mean and std are both supplied and their lengths differ from each other
\* or from the channel count
MeanStdMismatch ==
    /\ pre_options.normalize.some
    /\ pre_options.normalize.v.mean.some
    /\ pre_options.normalize.v.std.some
    /\ \/ Len(pre_options.normalize.v.mean.v) # Len(pre_options.normalize.v.std.v)
       \/ Len(pre_options.normalize.v.mean.v) # Channels

\* C12: malformed model bytes make load_model return an error, and an
\* invalid resize method or mismatched mean/std vectors make preprocess
\* return an error: never a success value, never a crash.  (load_model is
\* taken with a config offset whose 7 fields lie inside the buffer.)
C12_ErrorPropagation ==
    /\ (ret.op = "load_model" /\ ret.config_read = "ok"
            /\ MalformedModel(ret.data, ret.parse)) =>
          ret.err /\ ~ret.panic
    /\ (ret.op = "preprocess" /\ (BadResizeMethod \/ MeanStdMismatch)) =>
          ret.err /\ ~ret.panic

\* preprocess has returned the error of normalize_array: the image decoded,
\* the resize and the colorspace were accepted, mean and std did not match
C12_Witness ==
    /\ ret.op = "preprocess"
    /\ MeanStdMismatch
    /\ ret.err
    /\ ret.msg = "Mean and std dimensions must match channel count"

\* C13: the dispatcher routes by leading bytes: %PDF to the pdf handler, the
\* zip local-file-header signature to the docx handler, the JPEG
\* start-of-image marker and any other image signature (PNG) to the image
\* handler.
C13_Routing ==
    (doc_call.op = "process_document" /\ doc_call.options.parsed) =>
        /\ StartsWith(doc_call.data, PdfMagic) => doc_call.handler = "pdf"
        /\ StartsWith(doc_call.data, ZipMagic) => doc_call.handler = "docx"
        /\ StartsWith(doc_call.data, JpegMagic) => doc_call.handler = "image"
        /\ StartsWith(doc_call.data, PngMagic) => doc_call.handler = "image"

(***************************************************************************)
(* Claims about decoding, checked under SpecDecode.                        *)
(***************************************************************************)
\* C14: decoding a tensor whose encoded rank is 0 or greater than 4 returns
\* the decode error "Unsupported tensor dimension" and never an array; a
\* decode that yields an array has a rank from 1 to 4.  The tensor is decoded
\* at the offset its encoding was written to.
C14_RankChecked ==
    (ret.op = "read_tensor" /\ enc.kind = "tensor"
        /\ dec.ptr = enc.offset /\ dec.shape_ptr = enc.offset) =>
        /\ Len(enc.value.shape) \notin 1..4 =>
              /\ dec.result.kind = "err"
              /\ dec.result.msg = "Unsupported tensor dimension"
        /\ dec.result.kind = "ok" => Len(dec.result.shape) \in 1..4

\* a tensor of rank 5 has been written and its decode has returned the error
C14_Witness ==
    /\ ret.op = "read_tensor"
    /\ enc.kind = "tensor"
    /\ Len(enc.value.shape) = 5
    /\ dec.ptr = enc.offset
    /\ dec.shape_ptr = enc.offset
    /\ dec.result.kind = "err"

\* C15: read_string and read_config, called with an offset outside the buffer
\* or whose encoded region (the terminator search, the 5 int32 fields) runs
\* past the buffer's end, fault and return no value
C15_MalformedOffsetFaults ==
    /\ ret.op = "read_string"
          /\ (\A i \in ret.ptr..(Len(tp_memory) - 1) : tp_memory[i + 1] # 0)
          => ret.result.kind = "panic"
    /\ ret.op = "read_config" /\ ret.ptr + 20 > Len(tp_memory)
          => ret.result.kind \in {"panic", "fault"}

\* C16: no operation other than cleanup makes an arena buffer shorter
C16_ArenaGrowsMonotonically ==
    [][\/ ret'.op = "cleanup"
       \/ /\ Len(tp_memory') >= Len(tp_memory)
          /\ Len(ml_memory') >= Len(ml_memory)]_vars

\* the shape the specification gives for C channels and a W x H image
ExpectedShape(layout, C, H, W) ==
    CASE layout = "NCHW" -> <<1, C, H, W>>
      [] layout = "NHWC" -> <<1, H, W, C>>
      [] layout = "None" -> <<C, H, W>>

\* tests.rs 17-18, 63-75: a 64x64 RGB image, resized to 224x224, layout NCHW
\* (here without the normalisation, which leaves the shape alone)
ExampleImage == [variant |-> "ImageRgb8", width |-> 64, height |-> 64, pixel |-> 255]
ExampleOptions ==
    [resize |-> Some([width |-> 224, height |-> 224, method |-> "bilinear"]),
     normalize |-> None, color_space |-> "RGB", layout |-> "NCHW"]

\* C17: a successful preprocess with colour space RGB, BGR or GRAYSCALE
\* returns (1,C,H,W) for NCHW, (1,H,W,C) for NHWC and (C,H,W) without a
\* layout, where C is 3 (1 for GRAYSCALE) and W x H is the resize target or
\* else the decoded size; the 64x64 example gives (1,3,224,224)
C17_OutputShape ==
    /\ (ret.op = "preprocess" /\ ~ret.err
           /\ pre_options.color_space \in {"RGB", "BGR", "GRAYSCALE"}) =>
          LET C == IF pre_options.color_space = "GRAYSCALE" THEN 1 ELSE 3
              W == IF pre_options.resize.some THEN pre_options.resize.v.width
                   ELSE pre_image.width
              H == IF pre_options.resize.some THEN pre_options.resize.v.height
                   ELSE pre_image.height
          IN  ret.shape = ExpectedShape(pre_options.layout, C, H, W)
    /\ Process(ExampleImage, ExampleOptions) =
          [kind |-> "ok", value |-> [shape |-> <<1, 3, 224, 224>>, value |-> 255]]

\* a resized grayscale image was laid out as NHWC
C17_Witness ==
    /\ ret.op = "preprocess" /\ ~ret.err
    /\ pre_options.color_space = "GRAYSCALE"
    /\ pre_options.resize.some
    /\ pre_options.layout = "NHWC"
    /\ pre_image.variant = "ImageRgb8"
    /\ ret.shape = <<1, MaxDim, 1, 1>>

\* C18: when the overlap exceeds the end of the chunk just pushed, the next
\* cursor is 0: the step neither panics nor wraps the cursor around
C18_CursorClamped ==
    [][(/\ Len(chunks') = Len(chunks) + 1
        /\ config.overlap > chunks'[Len(chunks')].end)
          => (pc' # "panic" /\ start' = 0)]_vars

\* C20: chunking the empty text produces no chunk, whatever the config: the
\* call pushes nothing, does not panic, and returns the empty list
C20_EmptyText ==
    Len(text) = 0 => (Len(chunks) = 0 /\ pc \in {"loop", "done"})

\* the chunker returned for the empty text under a config with an overlap
\* larger than its chunk size
C20_Witness ==
    /\ Len(text) = 0
    /\ pc = "done"
    /\ chunks = <<>>
    /\ config.overlap > config.chunk_size

\* the buffer of the instance under test
Arena == IF module = "ml-inference" THEN ml_memory ELSE tp_memory

\* C21: allocate(size) returns the buffer length before the call and extends
\* the buffer by exactly size rounded up to the next multiple of 8; the new
\* region is zero and lies within the new length
C21_AllocateExtends ==
    [][(ret'.op = "allocate" /\ ~ret'.panic) =>
          LET size    == Issued'[Len(Issued')].size
              rounded == ((size + 7) \div 8) * 8
          IN  /\ ret'.value = Len(Arena)
              /\ Len(Arena') = Len(Arena) + rounded
              /\ \A i \in (ret'.value + 1)..(ret'.value + rounded) :
                    i <= Len(Arena') /\ Arena'[i] = 0]_vars

RECURSIVE MatchEnds(_, _)
\* the ends, as grapheme counts from the start of w, of the successive
\* leftmost matches of [.!?]+\s+ in w searched from grapheme index i
MatchEnds(w, i) ==
    IF i > Len(w) THEN <<>>
    ELSE LET j == PunctRunEnd(w, i)
             k == SpaceRunEnd(w, j)
         IN  IF j > i /\ k > j
             THEN <<k - 1>> \o MatchEnds(w, k)
             ELSE MatchEnds(w, i + 1)

\* C22: every emitted chunk has start < end <= min(start + chunk_size,
\* length), and when the window that is searched (its candidate end lies
\* before the end of the text) contains a sentence boundary, end is the
\* grapheme index right after the last match
C22_ChunkBounds ==
    \A i \in 1..Len(chunks) :
        LET c         == chunks[i]
            candidate == Min(c.start + config.chunk_size, Len(text))
            ms        == IF candidate < Len(text)
                         THEN MatchEnds(Slice(text, c.start, candidate), 1)
                         ELSE <<>>
        IN  /\ c.start < c.end
            /\ c.end <= candidate
            /\ ms # <<>> => c.end = c.start + ms[Len(ms)]

\* C23: MLInference::deallocate(offset, size) zeroes the region [offset,
\* offset + size rounded up to 8) and changes nothing else; when that region
\* is not fully inside the buffer the call returns without any effect
C23_DeallocateZeroesRegion ==
    [][(ret'.op = "deallocate" /\ module = "ml-inference") =>
          LET first == ret'.ptr
              last  == ret'.ptr + ((ret'.size + 7) \div 8) * 8
          IN  /\ Len(ml_memory') = Len(ml_memory)
              /\ UNCHANGED <<ml_model, ml_metadata, ml_config>>
              /\ IF last <= Len(ml_memory)
                 THEN /\ ~ret'.panic
                      /\ \A i \in 1..Len(ml_memory) :
                            ml_memory'[i] = IF first < i /\ i <= last THEN 0
                                            ELSE ml_memory[i]
                 ELSE ~ret'.panic /\ ml_memory' = ml_memory]_vars

\* C24: TextProcessor::deallocate(offset, size) removes at most one record,
\* the first whose offset is the argument and whose size is at least the
\* requested one; the buffer and the other records stay, and without a
\* matching record nothing changes
C24_DeallocateRemovesFirstMatch ==
    [][(ret'.op = "deallocate" /\ module = "text-processing") =>
          LET matches == {i \in 1..Len(tp_allocated) :
                             /\ tp_allocated[i][1] = ret'.ptr
                             /\ tp_allocated[i][2] >= ret'.size}
          IN  /\ tp_memory' = tp_memory
              /\ ~ret'.panic
              /\ IF matches = {}
                 THEN tp_allocated' = tp_allocated
                 ELSE \E k \in matches :
                        /\ \A j \in matches : k <= j
                        /\ Len(tp_allocated') = Len(tp_allocated) - 1
                        /\ \A i \in 1..Len(tp_allocated') :
                              tp_allocated'[i] = tp_allocated[IF i < k THEN i ELSE i + 1]]_vars

\* allocate(0) and allocate(8) both returned offset 0, and deallocate(0, 0),
\* which both records match, removed the first one
C24_Witness ==
    /\ ret.op = "deallocate" /\ module = "text-processing"
    /\ ret.ptr = 0 /\ ret.size = 0
    /\ Len(tp_issued) = 2 /\ tp_issued[1].size = 0
    /\ tp_allocated = <<<<0, 8>>>>

\* C25: the offset write_chunks returns addresses an int32 count equal to the
\* number of chunks, followed directly by that many 24-byte records; record i
\* holds (text_offset, start, end, metadata_offset) of chunk i, text_offset
\* points at the NUL-terminated text and metadata_offset at the 16 bytes
\* (language_offset 0, bits of 1.0)
C25_ChunkListLayout ==
    ret.op = "write_chunks" =>
        LET p == ret.value
        IN  /\ WordsInBounds(tp_memory, p, 1 + 6 * Len(chunks))
            /\ I32At(tp_memory, p) = Len(chunks)
            /\ \A i \in 1..Len(chunks) :
                  LET rec      == p + 4 + 24 * (i - 1)
                      text_ptr == I32At(tp_memory, rec)
                      meta_ptr == I32At(tp_memory, rec + 12)
                  IN  /\ I32At(tp_memory, rec + 4) = chunks[i].start
                      /\ I32At(tp_memory, rec + 8) = chunks[i].end
                      /\ text_ptr \in 0..Len(tp_memory)
                      /\ TpReadStringAt(tp_memory, text_ptr)
                            = [kind |-> "ok", value |-> FromUtf8Lossy(AsBytes(chunks[i].text))]
                      /\ meta_ptr \in 0..(Len(tp_memory) - 16)
                      /\ SubSeq(tp_memory, meta_ptr + 1, meta_ptr + 16)
                            = Zeros(8) \o F64OneBytes

\* the characters of a text given as graphemes
CodePoints(w) == [i \in 1..Len(w) |-> CodePoint(w[i])]

\* read_string was called last, at the offset write_string returned for the
\* string the caller kept
ReadBack == ret.op = "read_string" /\ enc.kind = "string" /\ ret.ptr = enc.offset

C27_StagesOptional ==
    (/\ ret.op = "preprocess"
     /\ pre_image.variant # "undecodable"
     /\ pre_options.color_space = "None"
     /\ ~pre_options.resize.some
     /\ ~pre_options.normalize.some
     /\ pre_options.layout \in {"None", "NCHW", "NHWC"}) =>
        /\ ~ret.err
        /\ pre_options.layout = "None" =>
              /\ Len(ret.shape) = 3
              /\ ret.shape[2] = pre_image.height
              /\ ret.shape[3] = pre_image.width

\* C28: a load_model call that returns an error leaves the model, the
\* metadata and the config as they were
C28_FailedLoadKeepsState ==
    [][(ret'.op = "load_model" /\ ret'.err) =>
          UNCHANGED <<ml_model, ml_metadata, ml_config>>]_vars

\* a load_model call has succeeded since the last cleanup: only a successful
\* load_model allocates the region of the metadata JSON
LoadedSinceCleanup ==
    \E k \in 1..Len(ml_issued) : ml_issued[k].size = Len(MetadataJson) + 1

\* C29: run_inference can succeed only after a load_model call has succeeded
\* since the processor was created and since the last cleanup; otherwise it
\* returns the error 'Model not loaded' and leaves the arena alone
C29_InferenceNeedsModel ==
    [][ret'.op = "run_inference" =>
          \/ LoadedSinceCleanup
          \/ /\ ret'.err /\ ret'.msg = "Model not loaded"
             /\ ml_memory' = ml_memory]_vars

\* C30: regions handed out by DocumentProcessor::malloc never alias: a
\* malloc, or the malloc of the result buffer inside process_document, that
\* directly follows a malloc with no free in between returns a region
\* disjoint from the earlier one.  Both regions start at the base of the
\* single buffer, so two non-empty regions are disjoint only if the buffer
\* moved.
C30_MallocNeverAliases ==
    [][(/\ ret.op = "malloc" /\ ~ret.panic /\ ret.size > 0
        /\ ret'.op \in {"malloc", "process_document"}
        /\ ~ret'.panic /\ ret'.size > 0) => ret'.moved]_vars

====
